---- MODULE Spec2Model ----
(***************************************************************************)
(* State-machine model of BatteryChargerController                         *)
(* (src/firmware/src/controllers/battery_charger_controller.py) and of the *)
(* task that drives it (start_regulation, main.run_controller).            *)
(*                                                                         *)
(* Units.  Voltages are integers in hundredths of a volt (7.2 V = 720,     *)
(* tolerance 0.05 V = 5, tiers 1.0/0.5/0.2 V = 100/50/20, max 30.0 V =     *)
(* 3000).  Currents are integers in mA; powers are their product with the  *)
(* voltage (units of 10 uW; the code's /1000 gives watts).  Times are      *)
(* integers in ms                                                          *)
(* (time.ticks_ms(); an interval of 0.010 s is 10).  The float NaN is the  *)
(* value NaN below; every comparison with it is false, every arithmetic    *)
(* result with it is NaN, as in IEEE-754.                                  *)
(***************************************************************************)
EXTENDS Integers, Sequences, FiniteSets, TLC

VARIABLES
    self,      \* the controller object's fields
    pca9685,   \* duty asserted on the controller's PWM channel
    task,      \* the asyncio task driving the controller
    now,       \* time.ticks_ms()
    calls,     \* how many direct calls of controller methods were made
    hist,      \* history: the last sample that passed the safety check, and
               \* the kind of the run's latest step before the last operation
    last,      \* the last operation: its name, argument, return value and
               \* event log
    fleet      \* the controllers and tasks of a program that runs several
               \* tasks at once, and the coroutine that gathers them

vars == <<self, pca9685, task, now, calls, hist, last, fleet>>

---------------------------------------------------------------------------
\* Floats

NaN == -999999

isnan(x) == x = NaN

fsub(a, b) == IF isnan(a) \/ isnan(b) THEN NaN ELSE a - b

fmul(a, b) == IF isnan(a) \/ isnan(b) THEN NaN ELSE a * b

fabs(a) == IF isnan(a) THEN NaN ELSE IF a < 0 THEN -a ELSE a

fgt(a, b) == ~isnan(a) /\ ~isnan(b) /\ a > b

flt(a, b) == ~isnan(a) /\ ~isnan(b) /\ a < b

fle(a, b) == ~isnan(a) /\ ~isnan(b) /\ a <= b

min(a, b) == IF b < a THEN b ELSE a

max(a, b) == IF b > a THEN b ELSE a

---------------------------------------------------------------------------
\* Program constants

MODE_VOLTAGE_REGULATION == "voltage_regulation"
MODE_CURRENT_LIMITING == "current_limiting"
MODE_CC_CV == "cc_cv"
MODE_CUSTOM == "custom"
MODE_STOPPED == "stopped"

InitialDuty == 1000

MaxVoltage == 3000

MaxCurrent == 5000

VoltageTierLarge == 100

VoltageTierMedium == 50

VoltageTierSmall == 20

CurrentTierLarge == 500

CurrentTierMedium == 250

CurrentTierSmall == 100

StatusPrintCycles == 2000

\* config.py: "Print status every 500 cycles".
STATUS_PRINT_INTERVAL == 500

---------------------------------------------------------------------------
\* Event log of one operation (instrumentation: what the operation did to
\* the sensor, the safety check, the steps and the PWM driver, in order).

NoSample == [voltage |-> 0, current |-> 0, power |-> 0, duty_cycle |-> 0, timestamp |-> 0]

Ev(e, kind, s, before, after, ok) ==
    [e |-> e, kind |-> kind, s |-> s, before |-> before, after |-> after, ok |-> ok, writes |-> 0]

\* A step's event: duty before and after, and how many PWM calls it made.
StepEv(kind, s, w, w1) ==
    [Ev("step", kind, s, w.self.current_duty, w1.self.current_duty, ~w1.exc)
        EXCEPT !.writes = Len(w1.log) - Len(w.log)]

Emit(w, ev) == [w EXCEPT !.log = Append(@, ev)]

\* The world an operation runs in: the controller, its PWM channel, the log,
\* whether an exception is propagating, and the value returned.
\* flow is where control goes next inside the regulation loop.
World(c, p) ==
    [self |-> c, pca9685 |-> p, log |-> <<>>, exc |-> FALSE, ret |-> FALSE, flow |-> "run"]

---------------------------------------------------------------------------
\* Drivers

\* PCA9685.duty(channel, value): asserts value on the channel, or raises
\* (I2C failure) and leaves the channel as it was.
pca9685_duty(w, value, ok) ==
    IF ok
    THEN Emit([w EXCEPT !.pca9685 = value], Ev("pwm", "duty", NoSample, w.pca9685, value, TRUE))
    ELSE Emit([w EXCEPT !.exc = TRUE], Ev("pwm", "duty", NoSample, w.pca9685, value, FALSE))

\* read_measurements: data is what ina3221.read_channel answers
\* ([raises, bus_voltage, current]); ticks is time.ticks_ms().
read_measurements(w, data, ticks) ==
    LET m == IF data.raises
             THEN [voltage |-> NaN, current |-> NaN, power |-> NaN,
                   duty_cycle |-> w.self.current_duty, timestamp |-> ticks]
             ELSE [voltage |-> data.bus_voltage, current |-> data.current,
                   power |-> fmul(data.bus_voltage, data.current),
                   duty_cycle |-> w.self.current_duty, timestamp |-> ticks]
    IN  Emit([w EXCEPT !.ret = m], Ev("read", "sensor", m, 0, 0, ~data.raises))

---------------------------------------------------------------------------
\* Sequencing: F applied to the value of x, x evaluated once.
Bind(x, F(_)) == CHOOSE r \in {F(v) : v \in {x}} : TRUE

---------------------------------------------------------------------------
\* Setters

set_duty_cycle(w, duty, ok) ==
    IF duty < w.self.min_duty \/ duty > w.self.max_duty
    THEN [w EXCEPT !.ret = FALSE]
    ELSE Bind(pca9685_duty([w EXCEPT !.self.current_duty = duty], duty, ok),
              LAMBDA w1 : IF w1.exc THEN w1 ELSE [w1 EXCEPT !.ret = TRUE])

\* Variant of set_target_voltage that rejects max_voltage itself.
set_target_voltage_exclusive(w, voltage) ==
    IF flt(voltage, 0) \/ fle(w.self.max_voltage, voltage)
    THEN [w EXCEPT !.ret = FALSE]
    ELSE [w EXCEPT !.self.target_voltage = voltage, !.ret = TRUE]

set_target_voltage(w, voltage) ==
    IF flt(voltage, 0) \/ fgt(voltage, w.self.max_voltage)
    THEN [w EXCEPT !.ret = FALSE]
    ELSE [w EXCEPT !.self.target_voltage = voltage, !.ret = TRUE]

\* Variant of set_target_current that accepts the value without storing it.
set_target_current_unstored(w, current) ==
    IF flt(current, 0) \/ fgt(current, w.self.max_current)
    THEN [w EXCEPT !.ret = FALSE]
    ELSE [w EXCEPT !.ret = TRUE]

set_target_current(w, current) ==
    IF flt(current, 0) \/ fgt(current, w.self.max_current)
    THEN [w EXCEPT !.ret = FALSE]
    ELSE [w EXCEPT !.self.target_current = current, !.ret = TRUE]

---------------------------------------------------------------------------
\* Safety check

\* Variant of safety_verdict with inclusive limits (>= for >).
safety_verdict_inclusive(c, measurements) ==
    LET voltage == measurements.voltage
        current == measurements.current
    IN  IF isnan(voltage) \/ isnan(current) THEN "invalid"
        ELSE IF voltage >= c.max_voltage THEN "overvoltage"
        ELSE IF current >= c.max_current THEN "overcurrent"
        ELSE "safe"

\* Variant of safety_verdict without the NaN test: the comparisons alone,
\* which are False for NaN.
safety_verdict_no_nan(c, measurements) ==
    LET voltage == measurements.voltage
        current == measurements.current
    IN  IF fgt(voltage, c.max_voltage) THEN "overvoltage"
        ELSE IF fgt(current, c.max_current) THEN "overcurrent"
        ELSE "safe"

\* The verdict _safety_check reaches, named after the message it prints;
\* it returns True exactly for "safe".
safety_verdict(c, measurements) ==
    LET voltage == measurements.voltage
        current == measurements.current
    IN  IF isnan(voltage) \/ isnan(current) THEN "invalid"
        ELSE IF fgt(voltage, c.max_voltage) THEN "overvoltage"
        ELSE IF fgt(current, c.max_current) THEN "overcurrent"
        ELSE "safe"

_safety_check(w, measurements) ==
    LET v == safety_verdict(w.self, measurements)
    IN  Emit([w EXCEPT !.ret = (v = "safe")], Ev("check", v, measurements, 0, 0, v = "safe"))

---------------------------------------------------------------------------
\* Regulation steps

\* Variant of apply_duty that writes the duty whether or not it changed.
apply_duty_always(w, new_duty, ok) ==
    pca9685_duty([w EXCEPT !.self.current_duty = new_duty], new_duty, ok)

\* The tail shared by both branches of a step: write new_duty when it differs.
apply_duty(w, new_duty, ok) ==
    IF new_duty # w.self.current_duty
    THEN pca9685_duty([w EXCEPT !.self.current_duty = new_duty], new_duty, ok)
    ELSE w

\* Variant of voltage_step_size with inclusive tier thresholds (>= for >).
voltage_step_size_inclusive(c, voltage_error) ==
    IF fle(VoltageTierLarge, fabs(voltage_error)) THEN c.duty_step * 8
    ELSE IF fle(VoltageTierMedium, fabs(voltage_error)) THEN c.duty_step * 4
    ELSE IF fle(VoltageTierSmall, fabs(voltage_error)) THEN c.duty_step * 2
    ELSE c.duty_step

voltage_step_size(c, voltage_error) ==
    IF fgt(fabs(voltage_error), VoltageTierLarge) THEN c.duty_step * 8
    ELSE IF fgt(fabs(voltage_error), VoltageTierMedium) THEN c.duty_step * 4
    ELSE IF fgt(fabs(voltage_error), VoltageTierSmall) THEN c.duty_step * 2
    ELSE c.duty_step

\* Variant of _voltage_regulation_step whose tolerance band leaves out its
\* edge (< for <=).
_voltage_regulation_step_open_band(w, measurements, ok) ==
    LET voltage == measurements.voltage
        voltage_error == fsub(voltage, w.self.target_voltage)
        step == voltage_step_size(w.self, voltage_error)
    IN  Bind(IF flt(fabs(voltage_error), w.self.voltage_tolerance) THEN w
             ELSE IF fgt(voltage_error, 0)
             THEN apply_duty(w, min(w.self.current_duty + step, w.self.max_duty), ok)
             ELSE apply_duty(w, max(w.self.current_duty - step, w.self.min_duty), ok),
             LAMBDA w1 : Emit(w1, StepEv("voltage", measurements, w, w1)))

_voltage_regulation_step(w, measurements, ok) ==
    LET voltage == measurements.voltage
        voltage_error == fsub(voltage, w.self.target_voltage)
        step == voltage_step_size(w.self, voltage_error)
    IN  Bind(IF fle(fabs(voltage_error), w.self.voltage_tolerance) THEN w
             ELSE IF fgt(voltage_error, 0)
             THEN apply_duty(w, min(w.self.current_duty + step, w.self.max_duty), ok)
             ELSE apply_duty(w, max(w.self.current_duty - step, w.self.min_duty), ok),
             LAMBDA w1 : Emit(w1, StepEv("voltage", measurements, w, w1)))

current_step_size(c, current_error) ==
    IF fgt(fabs(current_error), CurrentTierLarge) THEN c.duty_step * 8
    ELSE IF fgt(fabs(current_error), CurrentTierMedium) THEN c.duty_step * 4
    ELSE IF fgt(fabs(current_error), CurrentTierSmall) THEN c.duty_step * 2
    ELSE c.duty_step

\* Variant of _current_regulation_step with the direction reversed (current
\* too high lowers the duty).
_current_regulation_step_reversed(w, measurements, ok) ==
    LET current == measurements.current
        current_error == fsub(current, w.self.target_current)
        step == current_step_size(w.self, current_error)
    IN  Bind(IF fle(fabs(current_error), w.self.current_tolerance) THEN w
             ELSE IF fgt(current_error, 0)
             THEN apply_duty(w, max(w.self.current_duty - step, w.self.min_duty), ok)
             ELSE apply_duty(w, min(w.self.current_duty + step, w.self.max_duty), ok),
             LAMBDA w1 : Emit(w1, StepEv("current", measurements, w, w1)))

_current_regulation_step(w, measurements, ok) ==
    LET current == measurements.current
        current_error == fsub(current, w.self.target_current)
        step == current_step_size(w.self, current_error)
    IN  Bind(IF fle(fabs(current_error), w.self.current_tolerance) THEN w
             ELSE IF fgt(current_error, 0)
             THEN apply_duty(w, min(w.self.current_duty + step, w.self.max_duty), ok)
             ELSE apply_duty(w, max(w.self.current_duty - step, w.self.min_duty), ok),
             LAMBDA w1 : Emit(w1, StepEv("current", measurements, w, w1)))

\* Variant of _cc_cv_step that stays in the current step at the target
\* voltage (<= for <).
_cc_cv_step_inclusive(w, measurements, ok) ==
    LET voltage == measurements.voltage
    IN  IF fle(voltage, w.self.target_voltage)
        THEN _current_regulation_step(w, measurements, ok)
        ELSE _voltage_regulation_step(w, measurements, ok)

_cc_cv_step(w, measurements, ok) ==
    LET voltage == measurements.voltage
    IN  IF flt(voltage, w.self.target_voltage)
        THEN _current_regulation_step(w, measurements, ok)
        ELSE _voltage_regulation_step(w, measurements, ok)

---------------------------------------------------------------------------
\* Shutdown

\* The "stop" event records the mode, the duty and is_running on entry.
stop_regulation(w, data, ticks, ok) ==
    Bind(read_measurements(
             [Emit(w, Ev("stop", w.self.current_mode, NoSample, w.self.current_duty,
                         w.self.max_duty, w.self.is_running))
                 EXCEPT !.self.is_running = FALSE, !.self.current_mode = MODE_STOPPED],
             data, ticks),
         LAMBDA w2 : set_duty_cycle(w2, w2.self.max_duty, ok))

\* The status dictionary get_status builds from the sample just read.
\* runtime is in ticks (ms); the code divides it by 1000 to report seconds.
status_of(c, measurements, ticks) ==
    [mode |-> c.current_mode,
     running |-> c.is_running,
     measurements |-> measurements,
     targets |-> [voltage |-> c.target_voltage, current |-> c.target_current],
     duty_cycle |-> c.current_duty,
     cycle_count |-> c.cycle_count,
     runtime |-> IF c.start_time > 0 THEN ticks - c.start_time ELSE 0]

\* Variant of get_status that keeps the sample it read as the cached sample.
get_status_caching(w, data, ticks) ==
    Bind(read_measurements(w, data, ticks),
         LAMBDA w1 : [w1 EXCEPT !.self.cached_measurements = <<w1.ret>>,
                                !.self.last_sensor_read = ticks,
                                !.ret = status_of(w1.self, w1.ret, ticks)])

get_status(w, data, ticks) ==
    Bind(read_measurements(w, data, ticks),
         LAMBDA w1 : [w1 EXCEPT !.ret = status_of(w1.self, w1.ret, ticks)])

---------------------------------------------------------------------------
\* The regulation loop of start_regulation

None == <<>>

Some(m) == <<m>>

\* set_control_parameters: each argument is None or the new value.
set_control_parameters(w, duty_step, voltage_tolerance, current_tolerance, update_interval) ==
    [w EXCEPT !.self.duty_step = IF duty_step # None THEN duty_step[1] ELSE @,
              !.self.voltage_tolerance =
                  IF voltage_tolerance # None THEN voltage_tolerance[1] ELSE @,
              !.self.current_tolerance =
                  IF current_tolerance # None THEN current_tolerance[1] ELSE @,
              !.self.update_interval = IF update_interval # None THEN update_interval[1] ELSE @]

ValidModes == {MODE_VOLTAGE_REGULATION, MODE_CURRENT_LIMITING, MODE_CC_CV, MODE_CUSTOM}

\* Variant of ticks_diff with its arguments taken in the other order.
ticks_diff_swapped(a, b) == b - a

ticks_diff(a, b) == a - b

\* Variant of start_setup that leaves the cached sample of the previous run.
start_setup_stale_cache(w, mode, ticks) ==
    IF mode \notin ValidModes
    THEN [w EXCEPT !.ret = FALSE, !.flow = "return"]
    ELSE [w EXCEPT !.self.current_mode = mode,
                   !.self.is_running = TRUE,
                   !.self.cycle_count = 0,
                   !.self.start_time = ticks,
                   !.self.last_sensor_read = 0]

\* Validation and setup; flow "return" when the mode is rejected.
start_setup(w, mode, ticks) ==
    IF mode \notin ValidModes
    THEN [w EXCEPT !.ret = FALSE, !.flow = "return"]
    ELSE [w EXCEPT !.self.current_mode = mode,
                   !.self.is_running = TRUE,
                   !.self.cycle_count = 0,
                   !.self.start_time = ticks,
                   !.self.last_sensor_read = 0,
                   !.self.cached_measurements = None]

\* Variant of count_cycle that counts only the cycles that print the status.
count_cycle_printed(w, measurements) ==
    LET n == w.self.cycle_count + 1
        w2 == [w EXCEPT !.flow = "sleep"]
    IN  IF n % StatusPrintCycles = 0
        THEN Emit([w2 EXCEPT !.self.cycle_count = n],
                  Ev("status", "print", measurements, 0, n, TRUE))
        ELSE w2

\* The statistics and the status print after the mode's step, up to the sleep.
count_cycle(w, measurements) ==
    LET n == w.self.cycle_count + 1
        w2 == [w EXCEPT !.self.cycle_count = n, !.flow = "sleep"]
    IN  IF n % StatusPrintCycles = 0
        THEN Emit(w2, Ev("status", "print", measurements, 0, n, TRUE))
        ELSE w2

\* Variant of control_step that suspends after the safety check, before the
\* step.
control_step_suspended(w, mode, measurements, ok) ==
    [w EXCEPT !.flow = "sleep"]

\* The mode's step, then the statistics, unless the step raised.
control_step(w, mode, measurements, ok) ==
    Bind(IF mode = MODE_VOLTAGE_REGULATION THEN _voltage_regulation_step(w, measurements, ok)
         ELSE IF mode = MODE_CURRENT_LIMITING THEN _current_regulation_step(w, measurements, ok)
         ELSE IF mode = MODE_CC_CV THEN _cc_cv_step(w, measurements, ok)
         ELSE w,
         LAMBDA w1 : IF w1.exc THEN w1 ELSE count_cycle(w1, measurements))

\* Variant of read_and_check that goes on whatever the safety check answers.
read_and_check_lenient(w, current_time, data) ==
    Bind(read_measurements(w, data, current_time),
         LAMBDA w1 :
             Bind(_safety_check(IF w1.self.hybrid_mode
                                THEN [w1 EXCEPT !.self.cached_measurements = Some(w1.ret),
                                                !.self.last_sensor_read = current_time]
                                ELSE w1,
                                w1.ret),
                  LAMBDA w2 : [w2 EXCEPT !.ret = w1.ret]))

\* Variant of read_and_check that, in hybrid mode, goes on whatever the safety
\* check answers.
read_and_check_hybrid_lenient(w, current_time, data) ==
    Bind(read_measurements(w, data, current_time),
         LAMBDA w1 :
             Bind(_safety_check(IF w1.self.hybrid_mode
                                THEN [w1 EXCEPT !.self.cached_measurements = Some(w1.ret),
                                                !.self.last_sensor_read = current_time]
                                ELSE w1,
                                w1.ret),
                  LAMBDA w2 : IF w2.ret \/ w2.self.hybrid_mode THEN [w2 EXCEPT !.ret = w1.ret]
                              ELSE [w2 EXCEPT !.flow = "break"]))

\* A fresh sample: read, then the safety check; flow "break" when it fails.
\* In hybrid mode the sample is cached before it is checked.
read_and_check(w, current_time, data) ==
    Bind(read_measurements(w, data, current_time),
         LAMBDA w1 :
             Bind(_safety_check(IF w1.self.hybrid_mode
                                THEN [w1 EXCEPT !.self.cached_measurements = Some(w1.ret),
                                                !.self.last_sensor_read = current_time]
                                ELSE w1,
                                w1.ret),
                  LAMBDA w2 : IF w2.ret THEN [w2 EXCEPT !.ret = w1.ret]
                              ELSE [w2 EXCEPT !.flow = "break"]))

\* Variant of regulation_cycle that reads only after more than
\* sensor_read_interval (> for >=).
regulation_cycle_strict(w, mode, current_time, in) ==
    IF w.self.hybrid_mode
    THEN IF w.self.cached_measurements = None
            \/ ticks_diff(current_time, w.self.last_sensor_read) > w.self.sensor_read_interval
         THEN Bind(read_and_check(w, current_time, in.data),
                   LAMBDA w3 : IF w3.flow = "break" THEN w3
                               ELSE control_step(w3, mode, w3.self.cached_measurements[1], in.ok))
         ELSE control_step(w, mode, w.self.cached_measurements[1], in.ok)
    ELSE Bind(read_and_check(w, current_time, in.data),
              LAMBDA w2 : IF w2.flow = "break" THEN w2
                          ELSE control_step(w2, mode, w2.ret, in.ok))

\* One pass of the loop body, entered with is_running true.
regulation_cycle(w, mode, current_time, in) ==
    IF w.self.hybrid_mode
    THEN IF w.self.cached_measurements = None
            \/ ticks_diff(current_time, w.self.last_sensor_read) >= w.self.sensor_read_interval
         THEN Bind(read_and_check(w, current_time, in.data),
                   LAMBDA w3 : IF w3.flow = "break" THEN w3
                               ELSE control_step(w3, mode, w3.self.cached_measurements[1], in.ok))
         ELSE control_step(w, mode, w.self.cached_measurements[1], in.ok)
    ELSE Bind(read_and_check(w, current_time, in.data),
              LAMBDA w2 : IF w2.flow = "break" THEN w2
                          ELSE control_step(w2, mode, w2.ret, in.ok))

\* Variant of regulation_loop that does not test is_running.
regulation_loop_no_poll(w, mode, current_time, in) ==
    regulation_cycle(w, mode, current_time, in)

\* The while test and, when it passes, one pass of the body.
regulation_loop(w, mode, current_time, in) ==
    IF ~w.self.is_running THEN [w EXCEPT !.flow = "exit"]
    ELSE regulation_cycle(w, mode, current_time, in)

\* Variant of regulation_finally without the call of stop_regulation.
regulation_finally_no_stop(w, ticks, in) ==
    [w EXCEPT !.exc = FALSE, !.flow = "done"]

\* except CancelledError / except Exception / finally: stop_regulation().
regulation_finally(w, ticks, in) ==
    stop_regulation([w EXCEPT !.exc = FALSE, !.flow = "done"], in.stopData, ticks, in.stopOk)

\* After a pass of the loop: suspended in the sleep, or out through finally.
sleep_or_finish(w, ticks, in) ==
    IF w.flow = "sleep" THEN w ELSE regulation_finally(w, ticks, in)

\* start_regulation from its call to its first suspension or its end.
start_regulation(w, mode, ticks, in) ==
    Bind(start_setup(w, mode, ticks),
         LAMBDA w1 : IF w1.flow = "return" THEN w1
                     ELSE Bind(regulation_loop(w1, mode, ticks, in),
                               LAMBDA w2 : sleep_or_finish(w2, ticks, in)))

\* start_regulation resumed when its sleep returns.
start_regulation_resume(w, mode, ticks, in) ==
    Bind(regulation_loop(w, mode, ticks, in), LAMBDA w2 : sleep_or_finish(w2, ticks, in))

\* start_regulation resumed by a CancelledError thrown into its sleep.
start_regulation_cancel(w, ticks, in) ==
    regulation_finally([w EXCEPT !.exc = TRUE], ticks, in)

---------------------------------------------------------------------------
\* main.run_controller

\* The monitored branch's setup: the fields are assigned without validation.
run_controller_setup(w, mode, ticks) ==
    [w EXCEPT !.self.current_mode = mode,
              !.self.is_running = TRUE,
              !.self.cycle_count = 0,
              !.self.start_time = ticks,
              !.self.last_sensor_read = 0,
              !.self.cached_measurements = None]

\* The monitored loop's step and statistics.
run_controller_step(w, mode, measurements, ok) ==
    Bind(IF mode = MODE_VOLTAGE_REGULATION THEN _voltage_regulation_step(w, measurements, ok)
         ELSE IF mode = MODE_CURRENT_LIMITING THEN _current_regulation_step(w, measurements, ok)
         ELSE IF mode = MODE_CC_CV THEN _cc_cv_step(w, measurements, ok)
         ELSE w,
         LAMBDA w1 : IF w1.exc THEN w1 ELSE count_cycle(w1, measurements))

\* Variant of run_controller_read that steps on the sample without checking it.
run_controller_read_unchecked(w, current_time, data) ==
    Bind(read_measurements(w, data, current_time),
         LAMBDA w1 : IF w1.self.hybrid_mode
                     THEN [w1 EXCEPT !.self.cached_measurements = Some(w1.ret),
                                     !.self.last_sensor_read = current_time]
                     ELSE w1)

\* The monitored loop's read and safety check.
run_controller_read(w, current_time, data) ==
    Bind(read_measurements(w, data, current_time),
         LAMBDA w1 :
             Bind(_safety_check(IF w1.self.hybrid_mode
                                THEN [w1 EXCEPT !.self.cached_measurements = Some(w1.ret),
                                                !.self.last_sensor_read = current_time]
                                ELSE w1,
                                w1.ret),
                  LAMBDA w2 : IF w2.ret THEN [w2 EXCEPT !.ret = w1.ret]
                              ELSE [w2 EXCEPT !.flow = "break"]))

\* One pass of the monitored loop body.
run_controller_cycle(w, mode, current_time, in) ==
    IF w.self.hybrid_mode
    THEN IF w.self.cached_measurements = None
            \/ ticks_diff(current_time, w.self.last_sensor_read) >= w.self.sensor_read_interval
         THEN Bind(run_controller_read(w, current_time, in.data),
                   LAMBDA w3 : IF w3.flow = "break" THEN w3
                               ELSE run_controller_step(w3, mode, w3.self.cached_measurements[1], in.ok))
         ELSE run_controller_step(w, mode, w.self.cached_measurements[1], in.ok)
    ELSE Bind(run_controller_read(w, current_time, in.data),
              LAMBDA w2 : IF w2.flow = "break" THEN w2
                          ELSE run_controller_step(w2, mode, w2.ret, in.ok))

run_controller_loop(w, mode, current_time, in) ==
    IF ~w.self.is_running THEN [w EXCEPT !.flow = "exit"]
    ELSE run_controller_cycle(w, mode, current_time, in)

\* except CancelledError / except Exception / finally: controller.stop_regulation().
run_controller_finally(w, ticks, data, ok) ==
    stop_regulation([w EXCEPT !.exc = FALSE, !.flow = "done"], data, ticks, ok)

\* The part of run_controller that follows the monitored loop or the awaited
\* start_regulation: suspended with it, or out through finally.
run_controller_after(w, ticks, data, ok) ==
    IF w.flow = "sleep" THEN w ELSE run_controller_finally(w, ticks, data, ok)

\* run_controller from its call to its first suspension or its end.
run_controller(w, monitor, mode, ticks, in) ==
    IF monitor
    THEN Bind(run_controller_loop(run_controller_setup(w, mode, ticks), mode, ticks, in),
              LAMBDA w2 : run_controller_after(w2, ticks, in.stopData, in.stopOk))
    ELSE Bind(start_regulation(w, mode, ticks, in),
              LAMBDA w2 : run_controller_after(w2, ticks, in.stopData, in.stopOk2))

\* run_controller resumed when the sleep it is suspended in returns.
run_controller_resume(w, monitor, mode, ticks, in) ==
    IF monitor
    THEN Bind(run_controller_loop(w, mode, ticks, in),
              LAMBDA w2 : run_controller_after(w2, ticks, in.stopData, in.stopOk))
    ELSE Bind(start_regulation_resume(w, mode, ticks, in),
              LAMBDA w2 : run_controller_after(w2, ticks, in.stopData, in.stopOk2))

\* run_controller resumed by a CancelledError thrown into that sleep.
run_controller_cancel(w, monitor, ticks, in) ==
    IF monitor
    THEN run_controller_finally([w EXCEPT !.exc = TRUE], ticks, in.stopData, in.stopOk)
    ELSE Bind(start_regulation_cancel(w, ticks, in),
              LAMBDA w2 : run_controller_finally(w2, ticks, in.stopData, in.stopOk2))

---------------------------------------------------------------------------
\* Construction

\* __init__ and _initialize_hardware: a holds the constructor's arguments.
BatteryChargerController(a) ==
    [target_voltage |-> a.target_voltage,
     target_current |-> a.target_current,
     voltage_tolerance |-> a.voltage_tolerance,
     current_tolerance |-> a.current_tolerance,
     duty_step |-> a.duty_step,
     min_duty |-> a.min_duty,
     max_duty |-> a.max_duty,
     update_interval |-> a.update_interval,
     sensor_read_interval |-> IF a.sensor_read_interval # None
                              THEN a.sensor_read_interval[1] ELSE a.update_interval,
     pwm_update_interval |-> IF a.pwm_update_interval # None
                             THEN a.pwm_update_interval[1] ELSE a.update_interval,
     hybrid_mode |-> (a.sensor_read_interval # None /\ a.pwm_update_interval # None),
     cached_measurements |-> None,
     last_sensor_read |-> 0,
     current_duty |-> InitialDuty,
     current_mode |-> MODE_STOPPED,
     is_running |-> FALSE,
     max_voltage |-> MaxVoltage,
     max_current |-> MaxCurrent,
     cycle_count |-> 0,
     start_time |-> 0]

---------------------------------------------------------------------------
\* Bounds and input sets

\* The regulation loops are followed up to this time (ms).
MaxTime == 3

\* The number of direct method calls made on a controller.
MaxCalls == 1

\* How many cycles a long run is followed for.
MaxCycles == 2001

DefaultArgs ==
    [target_voltage |-> 720, target_current |-> 1000,
     voltage_tolerance |-> 5, current_tolerance |-> 50,
     duty_step |-> 2, min_duty |-> 0, max_duty |-> 4095,
     update_interval |-> 1,
     sensor_read_interval |-> None, pwm_update_interval |-> None]

\* main.py's hybrid controller, with a sensor interval of two PWM intervals.
HybridArgs ==
    [DefaultArgs EXCEPT !.target_voltage = 840, !.target_current = 700, !.duty_step = 4,
                        !.sensor_read_interval = Some(2), !.pwm_update_interval = Some(1)]

\* The arguments the controllers driven by a task are constructed with.
ConstructorArgs == { DefaultArgs, HybridArgs }

\* The arguments of the controllers whose methods are called directly: also
\* duty ranges that a single step can leave, ranges that start or end at the
\* initial duty, and one without the initial duty.
UnitArgs ==
    { DefaultArgs,
      [DefaultArgs EXCEPT !.target_voltage = 840, !.target_current = 700, !.duty_step = 4],
      [DefaultArgs EXCEPT !.min_duty = 990, !.max_duty = 1010],
      [DefaultArgs EXCEPT !.max_duty = InitialDuty],
      [DefaultArgs EXCEPT !.min_duty = InitialDuty],
      [DefaultArgs EXCEPT !.max_duty = 500] }

Reading(v, c) == [raises |-> FALSE, bus_voltage |-> v, current |-> c]

SensorFault == [raises |-> TRUE, bus_voltage |-> NaN, current |-> NaN]

\* What the sensor answers in the regulation loop.
Readings ==
    { Reading(700, 900), Reading(720, 1000), Reading(850, 2000),
      Reading(3001, 100), Reading(720, 5001), SensorFault }

StopReadings == { Reading(721, 1000), SensorFault }

\* The second stop_regulation of a run exists only under run_controller
\* without the monitor.
Inputs ==
    [data : Readings, ok : BOOLEAN, stopData : StopReadings, stopOk : BOOLEAN,
     stopOk2 : IF task.entry = "run_controller" /\ ~task.monitor THEN BOOLEAN ELSE {TRUE}]

StopInputs ==
    [data : {SensorFault}, ok : {TRUE}, stopData : StopReadings, stopOk : BOOLEAN,
     stopOk2 : IF task.entry = "run_controller" /\ ~task.monitor THEN BOOLEAN ELSE {TRUE}]

ModeArgs == ValidModes \cup {"fast_charge"}

\* What runs the controller: a task of controller.start_regulation (tests,
\* examples), or main.run_controller with ENABLE_PERFORMANCE_MONITOR set or not.
Programs ==
    { [entry |-> "start_regulation", monitor |-> FALSE],
      [entry |-> "run_controller", monitor |-> TRUE],
      [entry |-> "run_controller", monitor |-> FALSE] }

\* Hardware that answers every call: safe samples on either side of the
\* targets, every PWM write taken.
SteadyReadings == { Reading(700, 900), Reading(850, 2000) }

SteadyInputs ==
    [data : SteadyReadings, ok : {TRUE}, stopData : {Reading(721, 1000)},
     stopOk : {TRUE}, stopOk2 : {TRUE}]

\* How much later than asked a sleep returns.
Overruns == {0}

---------------------------------------------------------------------------
\* State machine

Done(op, w) == [op |-> op, arg |-> 0, ret |-> w.ret, log |-> w.log, exc |-> w.exc]

Quiet(op) == [op |-> op, arg |-> 0, ret |-> FALSE, log |-> <<>>, exc |-> FALSE]

\* A program with one controller and at most one task.
NoFleet == [program |-> "none", main |-> "none", err |-> FALSE, ctl |-> <<>>, tasks |-> <<>>]

NoTask(program) ==
    [pc |-> "none", entry |-> program.entry, monitor |-> program.monitor,
     mode |-> "none", result |-> "none"]

Constructed(a, program) ==
    \E w \in {pca9685_duty(World(BatteryChargerController(a), 0), InitialDuty, TRUE)} :
        /\ self = w.self
        /\ pca9685 = w.pca9685
        /\ task = NoTask(program)
        /\ now = 0
        /\ calls = 0
        /\ hist = [vetted |-> None, prev |-> "none"]
        /\ last = Done("__init__", w)

Init ==
    /\ \E a \in ConstructorArgs, program \in Programs : Constructed(a, program)
    /\ fleet = NoFleet

\* The indices of the events of one kind in a log.
Events(log, e) == {i \in DOMAIN log : log[i].e = e}

Latest(S) == CHOOSE i \in S : \A j \in S : j <= i

\* The history after an operation of the task with log `log`.
History(op, log) ==
    LET passed == {i \in Events(log, "check") : log[i].ok}
        steps == Events(last.log, "step")
    IN  [vetted |-> IF passed # {} THEN Some(log[Latest(passed)].s)
                    ELSE IF op = "task_start" THEN None
                    ELSE hist.vetted,
         prev |-> IF op = "task_start" THEN "none"
                  ELSE IF steps # {} THEN last.log[Latest(steps)].kind
                  ELSE hist.prev]

\* The world's state after an operation run by the task.
TaskStep(op, w) ==
    /\ self' = w.self
    /\ pca9685' = w.pca9685
    /\ last' = Done(op, w)
    /\ hist' = History(op, w.log)
    /\ task' = [task EXCEPT !.pc = IF w.flow = "sleep" THEN "sleep" ELSE "done",
                            !.result = IF w.flow = "sleep" THEN "pending"
                                       ELSE IF w.exc THEN "raised" ELSE "returned"]
    /\ UNCHANGED <<calls, fleet>>

\* asyncio.create_task(controller.start_regulation(mode)) or
\* asyncio.create_task(run_controller(controller, mode)): the one task that
\* drives the controller.
CreateTask ==
    \E mode \in ModeArgs :
        /\ task.pc = "none"
        /\ task' = [task EXCEPT !.pc = "created", !.mode = mode, !.result = "pending"]
        /\ last' = Quiet("create_task")
        /\ UNCHANGED <<self, pca9685, now, calls, hist, fleet>>

\* The task runs for the first time, to its first sleep or to its end.
Start(inputs) ==
    \E in \in inputs :
        /\ task.pc = "created"
        /\ now' = now
        /\ \E w \in {IF task.entry = "start_regulation"
                    THEN start_regulation(World(self, pca9685), task.mode, now, in)
                    ELSE run_controller(World(self, pca9685), task.monitor, task.mode, now, in)} :
               TaskStep("task_start", w)

\* The sleep returns after the loop's interval (or later) and the loop goes on.
\* MaxTime bounds the time the loop is followed; a stop request is always honoured.
Resume(inputs) ==
    \E in \in inputs, late \in Overruns :
        LET interval == IF self.hybrid_mode THEN self.pwm_update_interval ELSE self.update_interval
            t == now + interval + late
        IN  /\ task.pc = "sleep"
            /\ now < MaxTime \/ ~self.is_running
            /\ now' = t
            /\ \E w \in {IF task.entry = "start_regulation"
                        THEN start_regulation_resume(World(self, pca9685), task.mode, t, in)
                        ELSE run_controller_resume(World(self, pca9685), task.monitor, task.mode, t, in)} :
                   TaskStep("task_resume", w)

\* The task under every answer of the sensor and of the PWM driver.
TaskStart == Start(Inputs)

TaskResume == Resume(Inputs)

\* task.cancel(): CancelledError is thrown into the task where it is suspended;
\* a task that has not run yet ends without running any of its body.
TaskCancel ==
    \E in \in StopInputs :
        /\ task.pc \in {"created", "sleep"}
        /\ now' = now
        /\ IF task.pc = "created"
           THEN /\ task' = [task EXCEPT !.pc = "done", !.result = "cancelled"]
                /\ last' = Quiet("task_cancel")
                /\ UNCHANGED <<self, pca9685, calls, hist, fleet>>
           ELSE \E w \in {IF task.entry = "start_regulation"
                         THEN start_regulation_cancel(World(self, pca9685), now, in)
                         ELSE run_controller_cancel(World(self, pca9685), task.monitor, now, in)} :
                    TaskStep("task_cancel", w)

\* controller.is_running = False, as the tests and stop_all do.
RequestStop ==
    /\ task.pc = "sleep"
    /\ self.is_running
    /\ self' = [self EXCEPT !.is_running = FALSE]
    /\ last' = Quiet("request_stop")
    /\ UNCHANGED <<pca9685, task, now, calls, hist, fleet>>

Next ==
    \/ CreateTask
    \/ TaskStart
    \/ TaskResume
    \/ TaskCancel
    \/ RequestStop

Spec == Init /\ [][Next]_vars

\* The sleep of a suspended loop returns: asyncio wakes a sleeping task once
\* its delay has passed.
SpecFair == Spec /\ WF_vars(TaskResume)

---------------------------------------------------------------------------
\* Direct calls of the controller's methods, on a controller no task drives

UnitVoltages ==
    { NaN, 600, 619, 620, 669, 670, 699, 700, 714, 715, 720, 721, 725, 726,
      740, 741, 770, 771, 800, 820, 821, 3000, 3001 }

UnitCurrents ==
    { NaN, 400, 499, 500, 749, 750, 899, 900, 949, 950, 1000, 1050, 1051,
      1100, 1101, 1250, 1251, 1500, 1501, 5000, 5001 }

\* What the sensor answered for the sample a method is called with.
UnitReadings ==
    {Reading(v, 1000) : v \in UnitVoltages}
        \cup {Reading(v, c) : v \in {700, 720}, c \in UnitCurrents}
        \cup {Reading(NaN, NaN), Reading(NaN, 5001), Reading(3001, NaN), Reading(3001, 5001)}

DutyRequests == {-1, 0, 994, 1006, 4095, 4096}

VoltageRequests == {-1, 0, 780, 3000, 3001}

CurrentRequests == {-1, 0, 850, 5000, 5001}

\* The arguments of set_control_parameters: one parameter at a time, in and
\* out of any sensible range, all at once, and none.
NoParameters ==
    [duty_step |-> None, voltage_tolerance |-> None,
     current_tolerance |-> None, update_interval |-> None]

ParameterRequests ==
    {[NoParameters EXCEPT !.duty_step = Some(d)] : d \in {-5, 4}}
        \cup {[NoParameters EXCEPT !.voltage_tolerance = Some(x)] : x \in {-1, 10}}
        \cup {[NoParameters EXCEPT !.current_tolerance = Some(x)] : x \in {-1, 100}}
        \cup {[NoParameters EXCEPT !.update_interval = Some(x)] : x \in {-1, 2}}
        \cup {NoParameters,
              [duty_step |-> Some(1), voltage_tolerance |-> Some(2),
               current_tolerance |-> Some(20), update_interval |-> Some(-1)]}

UnitInit ==
    /\ \E a \in UnitArgs : Constructed(a, [entry |-> "none", monitor |-> FALSE])
    /\ fleet = NoFleet

\* A call of a controller method from outside any task.
External(op, w) ==
    /\ calls' = calls + 1
    /\ self' = w.self
    /\ pca9685' = w.pca9685
    /\ last' = Done(op, w)
    /\ UNCHANGED <<task, now, hist, fleet>>

\* A call of a setter with argument arg.
ExternalSet(op, arg, w) ==
    /\ calls' = calls + 1
    /\ self' = w.self
    /\ pca9685' = w.pca9685
    /\ last' = [Done(op, w) EXCEPT !.arg = arg]
    /\ UNCHANGED <<task, now, hist, fleet>>

\* The worlds in which a sample has just been read from the sensor.
Sampled(data) == {read_measurements(World(self, pca9685), data, now)}

CallSafetyCheck ==
    /\ calls < MaxCalls
    /\ \E data \in UnitReadings : \E w0 \in Sampled(data) :
        \E w \in {_safety_check(w0, w0.ret)} : External("_safety_check", w)

CallVoltageStep ==
    /\ calls < MaxCalls
    /\ \E data \in UnitReadings, ok \in BOOLEAN : \E w0 \in Sampled(data) :
        \E w \in {_voltage_regulation_step(w0, w0.ret, ok)} :
            External("_voltage_regulation_step", w)

CallCurrentStep ==
    /\ calls < MaxCalls
    /\ \E data \in UnitReadings, ok \in BOOLEAN : \E w0 \in Sampled(data) :
        \E w \in {_current_regulation_step(w0, w0.ret, ok)} :
            External("_current_regulation_step", w)

CallCcCvStep ==
    /\ calls < MaxCalls
    /\ \E data \in UnitReadings, ok \in BOOLEAN : \E w0 \in Sampled(data) :
        \E w \in {_cc_cv_step(w0, w0.ret, ok)} : External("_cc_cv_step", w)

CallSetDutyCycle ==
    /\ calls < MaxCalls
    /\ \E duty \in DutyRequests, ok \in BOOLEAN :
        \E w \in {set_duty_cycle(World(self, pca9685), duty, ok)} : ExternalSet("set_duty_cycle", duty, w)

CallSetTargetVoltage ==
    /\ calls < MaxCalls
    /\ \E voltage \in VoltageRequests :
        \E w \in {set_target_voltage(World(self, pca9685), voltage)} :
            ExternalSet("set_target_voltage", voltage, w)

CallSetTargetCurrent ==
    /\ calls < MaxCalls
    /\ \E current \in CurrentRequests :
        \E w \in {set_target_current(World(self, pca9685), current)} :
            ExternalSet("set_target_current", current, w)

CallStopRegulation ==
    /\ calls < MaxCalls
    /\ \E data \in StopReadings, ok \in BOOLEAN :
        \E w \in {stop_regulation(World(self, pca9685), data, now, ok)} :
            External("stop_regulation", w)

CallSetControlParameters ==
    /\ calls < MaxCalls
    /\ \E a \in ParameterRequests :
        \E w \in {set_control_parameters(World(self, pca9685), a.duty_step, a.voltage_tolerance,
                                         a.current_tolerance, a.update_interval)} :
            ExternalSet("set_control_parameters", a, w)

UnitNext ==
    \/ CallSafetyCheck
    \/ CallVoltageStep
    \/ CallCurrentStep
    \/ CallCcCvStep
    \/ CallSetDutyCycle
    \/ CallSetTargetVoltage
    \/ CallSetTargetCurrent
    \/ CallStopRegulation
    \/ CallSetControlParameters

SpecUnit == UnitInit /\ [][UnitNext]_vars

---------------------------------------------------------------------------
\* Hybrid controllers whose sensor interval is one, two and three PWM intervals

CadenceArgs ==
    { [HybridArgs EXCEPT !.sensor_read_interval = Some(k)] : k \in {1, 2, 3} }

CadenceInit ==
    /\ \E a \in CadenceArgs, program \in Programs : Constructed(a, program)
    /\ fleet = NoFleet

SpecCadence == CadenceInit /\ [][Next]_vars

---------------------------------------------------------------------------
\* A task driving the controller while its targets are set from outside
\* (test_dynamic_target_change)

SteadyStart == Start(SteadyInputs)

SteadyResume == Resume(SteadyInputs)

TargetNext ==
    \/ CreateTask
    \/ SteadyStart
    \/ SteadyResume
    \/ CallSetTargetVoltage
    \/ CallSetTargetCurrent

SpecTarget == Init /\ [][TargetNext]_vars

---------------------------------------------------------------------------
\* A controller started again after its run has ended (the start command of
\* examples/charger_example.py)

RestartTask ==
    \E mode \in ModeArgs :
        /\ task.pc = "done"
        /\ calls < MaxCalls
        /\ calls' = calls + 1
        /\ task' = [task EXCEPT !.pc = "created", !.mode = mode, !.result = "pending"]
        /\ last' = Quiet("create_task")
        /\ UNCHANGED <<self, pca9685, now, hist, fleet>>

RestartNext ==
    \/ CreateTask
    \/ SteadyStart
    \/ SteadyResume
    \/ TaskCancel
    \/ RequestStop
    \/ RestartTask

SpecRestart == Init /\ [][RestartNext]_vars

---------------------------------------------------------------------------
\* Several controllers, each driven by its own task, under a coroutine that
\* gathers the tasks (main.main, MultiControllerManager)

\* MultiControllerManager.run_single_controller: start_regulation, with
\* CancelledError and every Exception it lets out caught and printed.
run_single_controller(w, mode, ticks, in) ==
    Bind(start_regulation(w, mode, ticks, in),
         LAMBDA w2 : IF w2.flow = "sleep" THEN w2 ELSE [w2 EXCEPT !.exc = FALSE])

run_single_controller_resume(w, mode, ticks, in) ==
    Bind(start_regulation_resume(w, mode, ticks, in),
         LAMBDA w2 : IF w2.flow = "sleep" THEN w2 ELSE [w2 EXCEPT !.exc = FALSE])

run_single_controller_cancel(w, ticks, in) ==
    Bind(start_regulation_cancel(w, ticks, in), LAMBDA w2 : [w2 EXCEPT !.exc = FALSE])

\* A task of the fleet from its first run to its first suspension or its end.
task_body(t, w, ticks, in) ==
    IF t.entry = "run_controller" THEN run_controller(w, t.monitor, t.mode, ticks, in)
    ELSE IF t.entry = "run_single_controller" THEN run_single_controller(w, t.mode, ticks, in)
    ELSE start_regulation(w, t.mode, ticks, in)

\* The task resumed when its sleep returns.
task_resume(t, w, ticks, in) ==
    IF t.entry = "run_controller" THEN run_controller_resume(w, t.monitor, t.mode, ticks, in)
    ELSE IF t.entry = "run_single_controller"
    THEN run_single_controller_resume(w, t.mode, ticks, in)
    ELSE start_regulation_resume(w, t.mode, ticks, in)

\* The task resumed by the CancelledError that task.cancel() throws into it.
task_throw(t, w, ticks, in) ==
    IF t.entry = "run_controller" THEN run_controller_cancel(w, t.monitor, ticks, in)
    ELSE IF t.entry = "run_single_controller" THEN run_single_controller_cancel(w, ticks, in)
    ELSE start_regulation_cancel(w, ticks, in)

\* The coordinators: main.main with run_controller tasks (monitored or not),
\* and MultiControllerManager.start_all with run_single_controller tasks.
FleetPrograms ==
    { [coordinator |-> "main", entry |-> "run_controller", monitor |-> TRUE],
      [coordinator |-> "main", entry |-> "run_controller", monitor |-> FALSE],
      [coordinator |-> "manager", entry |-> "run_single_controller", monitor |-> FALSE] }

\* The controllers of the fleet, as main constructs them.
FleetArgs == <<HybridArgs, HybridArgs>>

\* What the sensor and the PWM driver answer to one run of a task of the fleet.
FleetInputs ==
    [data : {Reading(700, 900), SensorFault}, ok : BOOLEAN,
     stopData : {Reading(721, 1000)}, stopOk : BOOLEAN, stopOk2 : BOOLEAN]

\* The controllers constructed and one task created for each, the coordinator
\* waiting in asyncio.gather(*tasks).
Gathering(program) ==
    [program |-> program.coordinator,
     main |-> "gather",
     err |-> FALSE,
     ctl |-> [i \in DOMAIN FleetArgs |->
                 LET w == pca9685_duty(World(BatteryChargerController(FleetArgs[i]), 0),
                                       InitialDuty, TRUE)
                 IN  [self |-> w.self, pca9685 |-> w.pca9685]],
     tasks |-> [i \in DOMAIN FleetArgs |->
                   [ctl |-> i, entry |-> program.entry, monitor |-> program.monitor,
                    mode |-> MODE_CC_CV, pc |-> "created", result |-> "pending",
                    wake |-> 0, cancelling |-> FALSE]]]

FleetInit ==
    \E program \in FleetPrograms :
        /\ Constructed(HybridArgs, [entry |-> "none", monitor |-> FALSE])
        /\ fleet = Gathering(program)

\* The event loop still runs: asyncio.run returns when the coordinator ends,
\* and no task is resumed after that.
LoopAlive == fleet.main \in {"gather", "stopping"}

Ready(t) ==
    /\ ~t.cancelling
    /\ t.pc = "created" \/ (t.pc = "sleep" /\ t.wake <= now)

\* The fleet after task i has run to world w.
FleetStep(op, i, w) ==
    LET t == fleet.tasks[i]
        raised == w.flow # "sleep" /\ w.exc
    IN  /\ fleet' = [fleet EXCEPT
                         !.ctl[t.ctl] = [self |-> w.self, pca9685 |-> w.pca9685],
                         !.tasks[i] = [t EXCEPT
                             !.pc = IF w.flow = "sleep" THEN "sleep" ELSE "done",
                             !.result = IF w.flow = "sleep" THEN "pending"
                                        ELSE IF w.exc THEN "raised" ELSE "returned",
                             !.wake = now + (IF w.self.hybrid_mode
                                             THEN w.self.pwm_update_interval
                                             ELSE w.self.update_interval),
                             !.cancelling = FALSE],
                         !.err = @ \/ (raised /\ fleet.main = "gather")]
        /\ last' = [Done(op, w) EXCEPT !.arg = i]
        /\ UNCHANGED <<self, pca9685, task, now, calls, hist>>

\* A task of the fleet runs: for the first time, or because its sleep is over.
FleetRun ==
    \E i \in DOMAIN fleet.tasks :
        /\ LoopAlive
        /\ Ready(fleet.tasks[i])
        /\ \E in \in FleetInputs :
               LET t == fleet.tasks[i]
                   c == fleet.ctl[t.ctl]
               IN  \E w \in {IF t.pc = "created"
                              THEN task_body(t, World(c.self, c.pca9685), now, in)
                              ELSE task_resume(t, World(c.self, c.pca9685), now, in)} :
                       FleetStep(IF t.pc = "created" THEN "task_start" ELSE "task_resume", i, w)

\* A cancelled task runs: CancelledError is thrown into it where it is
\* suspended; a task that has not run yet ends without running its body.
FleetThrow ==
    \E i \in DOMAIN fleet.tasks :
        /\ LoopAlive
        /\ fleet.tasks[i].cancelling
        /\ LET t == fleet.tasks[i]
               c == fleet.ctl[t.ctl]
           IN  IF t.pc = "created"
               THEN /\ fleet' = [fleet EXCEPT !.tasks[i] =
                                     [t EXCEPT !.pc = "done", !.result = "cancelled",
                                               !.cancelling = FALSE]]
                    /\ last' = [Quiet("task_cancel") EXCEPT !.arg = i]
                    /\ UNCHANGED <<self, pca9685, task, now, calls, hist>>
               ELSE \E in \in FleetInputs :
                        \E w \in {task_throw(t, World(c.self, c.pca9685), now, in)} :
                            FleetStep("task_cancel", i, w)

\* Every task sleeps: time passes until the first sleep is over.
FleetTick ==
    LET asleep == {i \in DOMAIN fleet.tasks : fleet.tasks[i].pc = "sleep"}
    IN  /\ LoopAlive
        /\ now < MaxTime
        /\ asleep # {}
        /\ \A i \in DOMAIN fleet.tasks :
               ~Ready(fleet.tasks[i]) /\ ~fleet.tasks[i].cancelling
        /\ ~fleet.err
        /\ now' = now + 1
        /\ last' = Quiet("sleep")
        /\ UNCHANGED <<self, pca9685, task, calls, hist, fleet>>

AllDone == \A i \in DOMAIN fleet.tasks : fleet.tasks[i].pc = "done"

\* asyncio.gather(*tasks) resumes the coordinator: with the exception of a
\* task that raised, or when every task has ended.  The coordinator catches
\* KeyboardInterrupt only, so the exception ends it.
GatherReturns ==
    /\ fleet.main = "gather"
    /\ fleet.err \/ AllDone
    /\ fleet' = [fleet EXCEPT !.main = IF fleet.err THEN "raised" ELSE "returned"]
    /\ last' = Quiet("gather")
    /\ UNCHANGED <<self, pca9685, task, now, calls, hist>>

\* The stop signal reaches the coordinator in its gather: the handler cancels
\* every task (stop_all also clears every controller's is_running) and waits
\* in asyncio.gather(*tasks, return_exceptions=True).
StopSignal ==
    /\ fleet.main = "gather"
    /\ fleet' = [fleet EXCEPT
                     !.main = "stopping",
                     !.ctl = [c \in DOMAIN fleet.ctl |->
                                 IF fleet.program = "manager"
                                 THEN [fleet.ctl[c] EXCEPT !.self.is_running = FALSE]
                                 ELSE fleet.ctl[c]],
                     !.tasks = [i \in DOMAIN fleet.tasks |->
                                   IF fleet.tasks[i].pc = "done" THEN fleet.tasks[i]
                                   ELSE [fleet.tasks[i] EXCEPT !.cancelling = TRUE]]]
    /\ last' = Quiet("stop_signal")
    /\ UNCHANGED <<self, pca9685, task, now, calls, hist>>

\* Variant of StopReturns that does not wait for the tasks.
StopReturnsEarly ==
    /\ fleet.main = "stopping"
    /\ fleet' = [fleet EXCEPT !.main = "stopped"]
    /\ last' = Quiet("stopped")
    /\ UNCHANGED <<self, pca9685, task, now, calls, hist>>

\* asyncio.gather(*tasks, return_exceptions=True) returns when every task
\* has ended, whatever it ended with.
StopReturns ==
    /\ fleet.main = "stopping"
    /\ AllDone
    /\ fleet' = [fleet EXCEPT !.main = "stopped"]
    /\ last' = Quiet("stopped")
    /\ UNCHANGED <<self, pca9685, task, now, calls, hist>>

FleetNext ==
    \/ FleetRun
    \/ FleetThrow
    \/ FleetTick
    \/ GatherReturns
    \/ StopSignal
    \/ StopReturns

SpecFleet == FleetInit /\ [][FleetNext]_vars

----------------------------------------------------------------------------
\* One controller shared by two tasks: a caller creates a second
\* start_regulation task for a controller whose first loop has not ended.

SharedModes == {MODE_CC_CV, MODE_VOLTAGE_REGULATION}

\* One controller, two tasks created for it with modes m1 and m2.
Shared(m1, m2) ==
    LET g == Gathering([coordinator |-> "caller", entry |-> "start_regulation",
                        monitor |-> FALSE])
    IN  [g EXCEPT !.ctl = <<g.ctl[1]>>,
                  !.tasks = <<[g.tasks[1] EXCEPT !.mode = m1],
                              [g.tasks[2] EXCEPT !.ctl = 1, !.mode = m2]>>]

SharedInit ==
    \E m1 \in SharedModes, m2 \in SharedModes :
        /\ Constructed(HybridArgs, [entry |-> "none", monitor |-> FALSE])
        /\ fleet = Shared(m1, m2)

\* The caller stops the shared controller while its tasks are suspended.
SharedStop ==
    /\ LoopAlive
    /\ calls < MaxCalls
    /\ \E data \in StopReadings, ok \in BOOLEAN :
           \E w \in {stop_regulation(World(fleet.ctl[1].self, fleet.ctl[1].pca9685),
                                     data, now, ok)} :
               /\ fleet' = [fleet EXCEPT !.ctl[1] = [self |-> w.self, pca9685 |-> w.pca9685]]
               /\ calls' = calls + 1
               /\ last' = Done("stop_regulation", w)
               /\ UNCHANGED <<self, pca9685, task, now, hist>>

SharedNext ==
    \/ FleetRun
    \/ FleetTick
    \/ SharedStop
    \/ GatherReturns

SpecShared == SharedInit /\ [][SharedNext]_vars

----------------------------------------------------------------------------
\* A controller whose status is asked for from outside its task
\* (monitor_status, the interactive example, the tests).

\* get_status may be called again and again; calls counts the calls up to
\* MaxCalls + 1 and stays there.
CallGetStatus ==
    /\ task.pc # "created"
    /\ \E data \in StopReadings :
           \E w \in {get_status(World(self, pca9685), data, now)} :
               /\ calls' = IF calls <= MaxCalls THEN calls + 1 ELSE calls
               /\ self' = w.self
               /\ pca9685' = w.pca9685
               /\ last' = Done("get_status", w)
               /\ UNCHANGED <<task, now, hist, fleet>>

\* The hardware while the status is watched: a safe sample or an
\* over-voltage, the shutdown's PWM write taken or not.
StatusInputs ==
    [data : {Reading(700, 900), Reading(3001, 100)}, ok : {TRUE},
     stopData : {Reading(721, 1000)}, stopOk : BOOLEAN, stopOk2 : {TRUE}]

StatusStart == Start(StatusInputs)

StatusResume == Resume(StatusInputs)

StatusNext ==
    \/ CreateTask
    \/ StatusStart
    \/ StatusResume
    \/ RequestStop
    \/ CallGetStatus

SpecStatus == Init /\ [][StatusNext]_vars

----------------------------------------------------------------------------
\* A long run: one cc_cv task on hardware that answers every cycle with the
\* sample at the targets, followed for MaxCycles cycles.

AtTarget(c) == Reading(c.target_voltage, c.target_current)

LongRunInputs ==
    [data : {AtTarget(self)}, ok : {TRUE}, stopData : {Reading(721, 1000)},
     stopOk : {TRUE}, stopOk2 : {TRUE}]

LongRunInit ==
    /\ \E a \in ConstructorArgs, program \in Programs : Constructed(a, program)
    /\ fleet = NoFleet

LongRunCreate ==
    /\ task.pc = "none"
    /\ task' = [task EXCEPT !.pc = "created", !.mode = MODE_CC_CV, !.result = "pending"]
    /\ last' = Quiet("create_task")
    /\ UNCHANGED <<self, pca9685, now, calls, hist, fleet>>

LongRunStart == Start(LongRunInputs)

\* The sleep returns after the loop's interval and the loop goes on.
LongRunResume ==
    \E in \in LongRunInputs :
        LET interval == IF self.hybrid_mode THEN self.pwm_update_interval ELSE self.update_interval
            t == now + interval
        IN  /\ task.pc = "sleep"
            /\ self.cycle_count < MaxCycles
            /\ now' = t
            /\ \E w \in {IF task.entry = "start_regulation"
                        THEN start_regulation_resume(World(self, pca9685), task.mode, t, in)
                        ELSE run_controller_resume(World(self, pca9685), task.monitor, task.mode, t, in)} :
                   TaskStep("task_resume", w)

LongRunNext ==
    \/ LongRunCreate
    \/ LongRunStart
    \/ LongRunResume

SpecLongRun == LongRunInit /\ [][LongRunNext]_vars

---------------------------------------------------------------------------
\* Properties of the methods called directly (SpecUnit)

StepOps == {"_voltage_regulation_step", "_current_regulation_step", "_cc_cv_step"}

Abs(x) == IF x < 0 THEN -x ELSE x

\* The step events of one kind in the last operation's log, on a sample whose
\* measured quantity is a number.
StepsOn(kind) ==
    {i \in Events(last.log, "step") :
        /\ last.log[i].kind = kind
        /\ (IF kind = "voltage" THEN last.log[i].s.voltage ELSE last.log[i].s.current) # NaN}

\* C1 (as stated): after construction and after any sequence of operations,
\* current_duty and every value passed to the PWM driver lie in
\* [min_duty, max_duty].
C1_DutyInRange ==
    /\ self.min_duty <= self.current_duty /\ self.current_duty <= self.max_duty
    /\ \A i \in Events(last.log, "pwm") :
           self.min_duty <= last.log[i].after /\ last.log[i].after <= self.max_duty

\* C1, where it goes wrong: a controller constructed with a range that leaves
\* out the initial duty, after a regulation step that wrote to the PWM driver.
C1_OutOfRangeStepWritten ==
    /\ last.op \in StepOps
    /\ \E i \in Events(last.log, "pwm") : last.log[i].after > self.max_duty

\* C1 for the controllers whose range holds the initial duty: the clamp of the
\* steps and the range check of set_duty_cycle keep the duty in range.
C1_DutyInRangeFromInitial ==
    (self.min_duty <= InitialDuty /\ InitialDuty <= self.max_duty) => C1_DutyInRange

\* C6: _safety_check answers UNSAFE exactly when voltage or current is NaN, or
\* voltage > max_voltage, or current > max_current, tested in that order with
\* strict comparisons; otherwise SAFE.
C6_SafetyCheckPolicy ==
    \A i \in Events(last.log, "check") :
        LET s == last.log[i].s
            nan == s.voltage = NaN \/ s.current = NaN
            over_v == ~nan /\ s.voltage > self.max_voltage
            over_c == ~nan /\ s.current > self.max_current
        IN  /\ last.log[i].ok = ~(nan \/ over_v \/ over_c)
            /\ last.log[i].kind = (IF nan THEN "invalid"
                                   ELSE IF over_v THEN "overvoltage"
                                   ELSE IF over_c THEN "overcurrent"
                                   ELSE "safe")
            /\ last.op = "_safety_check" => last.ret = last.log[i].ok

\* C6's case: a sample exactly at the voltage limit is found SAFE.
C6_AtLimitIsSafe ==
    /\ last.op = "_safety_check"
    /\ last.ret = TRUE
    /\ \E i \in Events(last.log, "check") : last.log[i].s.voltage = self.max_voltage

\* C7: a voltage step on a sample with |voltage - target_voltage| <=
\* voltage_tolerance leaves current_duty unchanged and writes nothing to the
\* PWM driver; likewise the current step within current_tolerance.
C7_WithinToleranceNoOp ==
    /\ \A i \in StepsOn("voltage") :
           Abs(last.log[i].s.voltage - self.target_voltage) <= self.voltage_tolerance
               => /\ last.log[i].after = last.log[i].before
                  /\ last.log[i].writes = 0
                  /\ Events(last.log, "pwm") = {}
    /\ \A i \in StepsOn("current") :
           Abs(last.log[i].s.current - self.target_current) <= self.current_tolerance
               => /\ last.log[i].after = last.log[i].before
                  /\ last.log[i].writes = 0
                  /\ Events(last.log, "pwm") = {}

\* C7's case: target 7.2 V, tolerance 0.05 V, sample 7.21 V.
C7_ScenarioB ==
    /\ last.op = "_voltage_regulation_step"
    /\ self.target_voltage = 720 /\ self.voltage_tolerance = 5
    /\ \E i \in StepsOn("voltage") :
           last.log[i].s.voltage = 721 /\ self.current_duty = last.log[i].before

\* The multiplier C8 and C9 state for an error magnitude and three thresholds.
Multiplier(e, large, medium, small) ==
    IF e > large THEN 8 ELSE IF e > medium THEN 4 ELSE IF e > small THEN 2 ELSE 1

\* What C8 and C9 state a step leaves the duty at.
SteppedDuty(before, err, m) ==
    IF err > 0 THEN min(before + m * self.duty_step, self.max_duty)
    ELSE max(before - m * self.duty_step, self.min_duty)

\* C8: outside the tolerance the voltage step sets the duty to
\* min(duty + m*duty_step, max_duty) when err > 0 and to
\* max(duty - m*duty_step, min_duty) when err < 0, with m = 8, 4, 2, 1 for
\* |err| > 1.0 V, > 0.5 V, > 0.2 V, otherwise; m never decreases as |err| grows.
C8_VoltageStep ==
    /\ \A i \in StepsOn("voltage") :
           LET err == last.log[i].s.voltage - self.target_voltage
           IN  Abs(err) > self.voltage_tolerance
                   => /\ last.log[i].after =
                             SteppedDuty(last.log[i].before, err, Multiplier(Abs(err), 100, 50, 20))
                      /\ self.current_duty = last.log[i].after
    /\ LET e == <<0, 5, 6, 20, 21, 50, 51, 100, 101, 2280>>
           unit == [self EXCEPT !.duty_step = 1]
       IN  \A k \in 1..(Len(e) - 1) :
               /\ voltage_step_size(unit, e[k]) <= voltage_step_size(unit, e[k + 1])
               /\ voltage_step_size(unit, -e[k]) <= voltage_step_size(unit, -e[k + 1])

\* C8's case: target 7.2 V, duty_step 2, sample 8.0 V raises the duty by 8.
C8_ScenarioA ==
    /\ last.op = "_voltage_regulation_step"
    /\ self.target_voltage = 720 /\ self.duty_step = 2
    /\ \E i \in StepsOn("voltage") :
           /\ last.log[i].s.voltage = 800
           /\ last.log[i].after = last.log[i].before + 8
           /\ last.log[i].writes = 1

\* C9: the current step is the same algorithm over current, target_current and
\* current_tolerance with thresholds 500/250/100 mA: current above the band
\* raises the duty toward max_duty, current below it lowers the duty toward
\* min_duty.
C9_CurrentStep ==
    /\ \A i \in StepsOn("current") :
           LET err == last.log[i].s.current - self.target_current
           IN  Abs(err) > self.current_tolerance
                   => /\ last.log[i].after =
                             SteppedDuty(last.log[i].before, err, Multiplier(Abs(err), 500, 250, 100))
                      /\ self.current_duty = last.log[i].after
    /\ LET e == <<0, 50, 51, 100, 101, 250, 251, 500, 501, 4000>>
           unit == [self EXCEPT !.duty_step = 1]
       IN  \A k \in 1..(Len(e) - 1) :
               /\ current_step_size(unit, e[k]) <= current_step_size(unit, e[k + 1])
               /\ current_step_size(unit, -e[k]) <= current_step_size(unit, -e[k + 1])

\* C9's case: CC/CV with target 8.4 V and 700 mA, tolerance 50 mA, sample 7.0 V
\* and 900 mA: the current step raises the duty by 2*duty_step.
C9_ScenarioD ==
    /\ last.op = "_cc_cv_step"
    /\ self.target_voltage = 840 /\ self.target_current = 700 /\ self.current_tolerance = 50
    /\ \E i \in StepsOn("current") :
           /\ last.log[i].s.voltage = 700 /\ last.log[i].s.current = 900
           /\ last.log[i].after = last.log[i].before + 2 * self.duty_step
           /\ last.log[i].writes = 1

\* C11: a regulation step calls the PWM driver only when the clamped new duty
\* differs from current_duty, and then once, with that duty: at max_duty with
\* the measured quantity too high, or at min_duty with it too low, the step
\* makes no call and leaves the duty unchanged.
C11_NoRedundantWrite ==
    last.op \in StepOps
        => \A i \in Events(last.log, "step") :
               LET writes == Events(last.log, "pwm")
               IN  /\ last.log[i].writes = Cardinality(writes)
                   /\ Cardinality(writes) = (IF last.log[i].after # last.log[i].before THEN 1 ELSE 0)
                   /\ \A j \in writes : last.log[j].after = last.log[i].after
                   /\ self.current_duty = last.log[i].after

\* C11's case: the duty is at max_duty and the voltage is above the band.
C11_AtMaxTooHigh ==
    /\ last.op = "_voltage_regulation_step"
    /\ Events(last.log, "pwm") = {}
    /\ \E i \in StepsOn("voltage") :
           /\ last.log[i].s.voltage > self.target_voltage + self.voltage_tolerance
           /\ last.log[i].before = self.max_duty
           /\ self.current_duty = self.max_duty

---------------------------------------------------------------------------
\* Properties of the regulation loops (Spec, SpecFair)

\* A task whose loop started: start_regulation returns False before its loop
\* when it rejects the mode; the monitored loop of run_controller takes any.
LoopStarted == task.mode \in ValidModes \/ (task.entry = "run_controller" /\ task.monitor)

\* The task ended by running its shutdown path (not cancelled before it ran).
TaskEnded == task.pc = "done" /\ task.result \in {"returned", "raised"}

\* The shutdown as the log shows it: each "stop" is followed by one read of
\* the sensor and then by a PWM write of max_duty.
ShutdownLogged(log) ==
    /\ Events(log, "stop") # {}
    /\ \A i \in Events(log, "stop") :
           /\ i + 2 <= Len(log)
           /\ log[i + 1].e = "read"
           /\ log[i + 2].e = "pwm" /\ log[i + 2].after = self.max_duty

\* The controller as the shutdown leaves it; the last value passed to the
\* PWM driver is max_duty.
ShutDown ==
    /\ ~self.is_running
    /\ self.current_mode = MODE_STOPPED
    /\ self.current_duty = self.max_duty
    /\ LET writes == Events(last.log, "pwm")
       IN  writes # {} /\ last.log[Latest(writes)].after = self.max_duty

\* C2: when a freshly read sample is UNSAFE no step is applied to it and the
\* run ends with mode STOPPED, is_running False and duty = max_duty; the one
\* verdict suffices: the sample is not read or checked again.
C2_UnsafeSampleEndsRun ==
    \A k \in Events(last.log, "check") :
        ~last.log[k].ok
            => /\ Events(last.log, "step") = {}
               /\ Events(last.log, "check") = {k}
               /\ last.log[k + 1].e = "stop"
               /\ TaskEnded
               /\ ShutDown

\* C2's case: after cycles that passed, a sample with NaN is read.
C2_ScenarioC ==
    /\ last.op = "task_resume"
    /\ hist.vetted # None
    /\ \E k \in Events(last.log, "check") :
           last.log[k].kind = "invalid" /\ last.log[k].s.voltage = NaN
    /\ self.current_mode = MODE_STOPPED

\* C3: every way a started loop ends (stop flag, cancellation during the
\* sleep, safety trip, exception in a cycle) runs the shutdown before the
\* task finishes: is_running False, mode STOPPED, one final sample read, duty
\* driven to max_duty.  start_regulation runs it once; main.run_controller
\* around start_regulation runs it a second time.
C3_EveryExitShutsDown ==
    (TaskEnded /\ LoopStarted)
        => /\ ShutDown
           /\ ShutdownLogged(last.log)
           /\ Cardinality(Events(last.log, "stop")) =
                  (IF task.entry = "run_controller" /\ ~task.monitor THEN 2 ELSE 1)

\* C3's case: a task cancelled while suspended in its sleep.
C3_CancelledInSleep ==
    /\ last.op = "task_cancel"
    /\ TaskEnded
    /\ task.entry = "start_regulation"
    /\ ShutdownLogged(last.log)

\* C4: every sample a step used was read and found SAFE by the check that
\* followed its read in the same cycle, before the step; a check is only ever
\* made on the sample just read.
C4_StepOnlyOnCheckedSample ==
    /\ \A i \in Events(last.log, "step") :
           /\ hist.vetted = Some(last.log[i].s)
           /\ \A j \in Events(last.log, "read") :
                  j < i => /\ j + 1 < i
                           /\ last.log[j + 1].e = "check"
                           /\ last.log[j + 1].ok
                           /\ last.log[j + 1].s = last.log[i].s
    /\ \A k \in Events(last.log, "check") :
           /\ k > 1
           /\ last.log[k - 1].e = "read"
           /\ last.log[k - 1].s = last.log[k].s
           /\ last.log[k].s.timestamp = now

\* C4's case: the monitored hybrid loop steps on its cached sample, read and
\* checked on an earlier cycle.
C4_CachedSampleStep ==
    /\ task.entry = "run_controller" /\ task.monitor
    /\ self.hybrid_mode
    /\ last.op = "task_resume"
    /\ Events(last.log, "read") = {}
    /\ \E i \in Events(last.log, "step") :
           hist.vetted = Some(last.log[i].s) /\ last.log[i].s.timestamp < now

\* The flag was cleared while the loop is suspended in its sleep.
StopRequested == task.pc = "sleep" /\ ~self.is_running

\* C5: is_running is polled at the top of every cycle: once it is False while
\* the loop sleeps, the wake-up makes no read, check or step of a cycle, leaves
\* the loop and runs the shutdown; given the sleep returns, the task completes.
C5_StopFlagPolled ==
    /\ [][(StopRequested /\ last'.op = "task_resume")
              => /\ last'.log # <<>> /\ last'.log[1].e = "stop"
                 /\ Events(last'.log, "check") = {}
                 /\ Events(last'.log, "step") = {}
                 /\ task'.pc = "done"
                 /\ self'.current_mode = MODE_STOPPED
                 /\ self'.cycle_count = self.cycle_count]_vars
    /\ (StopRequested ~> task.pc = "done")

\* C5's case: the loop woke up with the flag cleared and shut down.
C5_StoppedByFlag ==
    /\ last.op = "task_resume"
    /\ TaskEnded
    /\ last.log # <<>> /\ last.log[1].e = "stop" /\ ~last.log[1].ok
    /\ self.cycle_count > 0

\* C10: in CC_CV mode a cycle applies exactly one step: the current step when
\* the sample's voltage is below target_voltage, the voltage step otherwise,
\* whatever the cycles before it applied.
C10_CcCvChoice ==
    task.mode = MODE_CC_CV
        => /\ Cardinality(Events(last.log, "step")) <= 1
           /\ (task.pc = "sleep" /\ last.op \in {"task_start", "task_resume"})
                  => Cardinality(Events(last.log, "step")) = 1
           /\ \A i \in Events(last.log, "step") :
                  /\ last.log[i].s.voltage # NaN
                  /\ last.log[i].kind =
                         (IF last.log[i].s.voltage < self.target_voltage
                          THEN "current" ELSE "voltage")

\* C10's case: a run that applied the voltage step applies the current step
\* on the next cycle, whose sample is below target again.
C10_BackToCurrentStep ==
    /\ task.mode = MODE_CC_CV
    /\ hist.prev = "voltage"
    /\ \E i \in Events(last.log, "step") :
           last.log[i].kind = "current" /\ last.log[i].s.voltage < self.target_voltage

\* The task is about to run for the first time with a mode that is not one of
\* the four regulation modes.
InvalidStart == task.pc = "created" /\ task.mode \notin ValidModes

\* The fields C12 names are as they were before the start.
StateKept ==
    /\ self'.current_mode = self.current_mode
    /\ self'.is_running = self.is_running
    /\ self'.current_duty = self.current_duty
    /\ self'.cycle_count = self.cycle_count
    /\ self'.cached_measurements = self.cached_measurements

\* C12 (as stated): a start with a mode that is not one of the four is
\* rejected, whichever entry point starts the controller: the caller receives
\* a failure indicator, and mode, is_running, duty, cycle_count and the cached
\* sample are unchanged.
C12_InvalidModeRejected ==
    [][(InvalidStart /\ last'.op = "task_start")
           => /\ task'.pc = "done"
              /\ self'.current_mode = MODE_STOPPED
              /\ StateKept
              /\ last'.ret = FALSE]_vars

\* C12, where it goes wrong: main.run_controller with the performance monitor
\* has taken the mode and its loop is running.
C12_InvalidModeRunning ==
    /\ task.entry = "run_controller" /\ task.monitor
    /\ task.mode \notin ValidModes
    /\ task.pc = "sleep"
    /\ self.is_running
    /\ self.current_mode = task.mode
    /\ self.cycle_count > 0

\* C12 for start_regulation alone: it returns False and changes nothing.
C12_StartRegulationRejects ==
    [][(InvalidStart /\ task.entry = "start_regulation" /\ last'.op = "task_start")
           => /\ task'.pc = "done"
              /\ last'.ret = FALSE
              /\ last'.log = <<>>
              /\ self' = self
              /\ pca9685' = pca9685]_vars

---------------------------------------------------------------------------
\* Properties of the setters (SpecUnit)

\* A rejected call: False is returned, no field changes, the PWM driver is
\* not called.
Rejected ==
    /\ last'.ret = FALSE
    /\ ~last'.exc
    /\ self' = self
    /\ pca9685' = pca9685
    /\ last'.log = <<>>

Supplied(a) ==
    {f[1] : f \in {a.duty_step, a.voltage_tolerance, a.current_tolerance, a.update_interval}
                      \ {None}}

\* C14 (as stated): set_control_parameters validates each supplied value,
\* returns a success/failure indicator, and leaves the parameters unchanged
\* when a supplied value is out of range (here: negative).
C14_ParametersValidated ==
    [][last'.op = "set_control_parameters"
           => IF \E x \in Supplied(last'.arg) : x < 0
              THEN self' = self /\ last'.ret = FALSE
              ELSE last'.ret = TRUE]_vars

\* C14, where it goes wrong: a negative duty_step has been taken.
C14_NegativeStepTaken ==
    /\ last.op = "set_control_parameters"
    /\ last.arg.duty_step = Some(-5)
    /\ self.duty_step = -5

\* stop_regulation is called on a controller whose mode is STOPPED.
StopWhenStopped == last'.op = "stop_regulation" /\ self.current_mode = MODE_STOPPED

\* C15 (as stated): stop_regulation on a controller that is already STOPPED
\* (never started, or stopped before, possibly with a manual duty set since)
\* changes neither current_duty, nor the value on the actuator, nor cycle_count
\* or start_time.
C15_StopIdempotent ==
    [][StopWhenStopped
           => /\ self'.current_duty = self.current_duty
              /\ \A i \in Events(last'.log, "pwm") : last'.log[i].after = self.current_duty
              /\ self'.cycle_count = self.cycle_count
              /\ self'.start_time = self.start_time]_vars

\* C15, where it goes wrong: stop_regulation on a controller that was never
\* started has moved the duty from its initial value to max_duty.
C15_StopMovedDuty ==
    /\ last.op = "stop_regulation"
    /\ last.log[1].e = "stop" /\ last.log[1].kind = MODE_STOPPED
    /\ last.log[1].before = InitialDuty
    /\ self.current_duty = self.max_duty
    /\ self.current_duty # InitialDuty

\* C15 for a controller whose duty is max_duty already: the duty and the
\* statistics stay, and max_duty is written to the PWM driver once more.
C15_StopKeepsDisabledDuty ==
    [][(StopWhenStopped /\ self.current_duty = self.max_duty)
           => /\ self'.current_duty = self.current_duty
              /\ \A i \in Events(last'.log, "pwm") : last'.log[i].after = self.current_duty
              /\ self'.cycle_count = self.cycle_count
              /\ self'.start_time = self.start_time]_vars

---------------------------------------------------------------------------
\* Properties of a run whose targets are set from outside (SpecTarget)

\* What a step leaves the duty at for an error err, tolerance tol and
\* multiplier m.
TargetStep(before, err, tol, m) ==
    IF Abs(err) <= tol THEN before ELSE SteppedDuty(before, err, m)

\* The setter `op` was accepted while the loop sleeps, and the loop wakes up next.
NextCycleAfter(op) ==
    /\ task.pc = "sleep"
    /\ last.op = op
    /\ last'.op = "task_resume"
    /\ last.ret = TRUE

\* C16: a set_target_voltage or set_target_current call accepted while the
\* loop is suspended between cycles is used by the very next step of the loop:
\* the step compares its sample with the new target, in hybrid mode also when
\* the sample is the cached one.
C16_NewTargetUsed ==
    [][/\ NextCycleAfter("set_target_voltage")
           => \A i \in Events(last'.log, "step") :
                  LET ev == last'.log[i]
                  IN  /\ task.mode = MODE_CC_CV
                          => ev.kind = (IF ev.s.voltage < last.arg THEN "current" ELSE "voltage")
                      /\ ev.kind = "voltage"
                          => LET err == ev.s.voltage - last.arg
                             IN  ev.after = TargetStep(ev.before, err, self.voltage_tolerance,
                                                       Multiplier(Abs(err), 100, 50, 20))
       /\ NextCycleAfter("set_target_current")
           => \A i \in Events(last'.log, "step") :
                  LET ev == last'.log[i]
                  IN  ev.kind = "current"
                          => LET err == ev.s.current - last.arg
                             IN  ev.after = TargetStep(ev.before, err, self.current_tolerance,
                                                       Multiplier(Abs(err), 500, 250, 100))]_vars

\* C16's case: a hybrid voltage regulation with target 8.4 V whose first cycle
\* stepped the duty by duty_step on a sample of 8.5 V; the target was set to
\* 7.8 V during the sleep and the second cycle stepped by 4*duty_step on the
\* same cached sample.
C16_CachedSampleNewTarget ==
    /\ last.op = "task_resume"
    /\ self.hybrid_mode
    /\ task.mode = MODE_VOLTAGE_REGULATION
    /\ self.cycle_count = 2
    /\ self.target_voltage = 780
    /\ Events(last.log, "read") = {}
    /\ \E i \in Events(last.log, "step") :
           /\ last.log[i].s.voltage = 850
           /\ last.log[i].before = InitialDuty + self.duty_step
           /\ last.log[i].after = InitialDuty + 5 * self.duty_step

---------------------------------------------------------------------------
\* Properties of a controller that is started again (SpecRestart)

\* C17: every start with a valid mode sets cycle_count to 0, start_time to the
\* current tick and cached_measurements to None before the first cycle, so the
\* first cycle of every run, hybrid or not, also of a restart sooner than
\* sensor_read_interval after the previous run's last read, reads a fresh
\* sample and safety-checks it before any step.
C17_FreshFirstCycle ==
    (last.op = "task_start" /\ LoopStarted)
        => /\ Len(last.log) >= 2
           /\ last.log[1].e = "read" /\ last.log[1].s.timestamp = now
           /\ last.log[2].e = "check" /\ last.log[2].s = last.log[1].s
           /\ \A i \in Events(last.log, "step") : i > 2 /\ last.log[i].s = last.log[1].s
           /\ self.start_time = now
           /\ self.cycle_count = (IF task.pc = "sleep" THEN 1 ELSE 0)
           /\ self.hybrid_mode
                  => /\ self.cached_measurements = Some(last.log[1].s)
                     /\ self.last_sensor_read = now

\* C17's case: a hybrid controller started for the second time sooner than
\* sensor_read_interval after time 0, its first cycle done on a fresh sample.
C17_EarlyRestart ==
    /\ last.op = "task_start"
    /\ calls = 1
    /\ self.hybrid_mode
    /\ 0 < now /\ now < self.sensor_read_interval
    /\ task.pc = "sleep"
    /\ last.log[1].e = "read"
    /\ Events(last.log, "step") # {}

---------------------------------------------------------------------------
\* Properties of the hybrid cadence (Spec)

StepModes == {MODE_VOLTAGE_REGULATION, MODE_CURRENT_LIMITING, MODE_CC_CV}

Earliest(S) == CHOOSE i \in S : \A j \in S : i <= j

\* The events of a pass of the loop body: the log up to the shutdown, if any.
CycleLog(log) ==
    IF Events(log, "stop") = {} THEN log
    ELSE SubSeq(log, 1, Earliest(Events(log, "stop")) - 1)

\* The task wakes up from its sleep with is_running set and enters the body
\* of a hybrid loop.
HybridPass ==
    /\ self.hybrid_mode
    /\ task.pc = "sleep"
    /\ self.is_running
    /\ last'.op = "task_resume"

\* C18: in hybrid mode a cycle reads the sensor and runs the safety check if
\* and only if there is no cached sample or now - last_sensor_read >=
\* sensor_read_interval; every other cycle reuses the cached sample unchanged
\* with no read and no check; every cycle, fresh or cached, that goes on past
\* the check applies the mode's step once and then sleeps for
\* pwm_update_interval.
C18_HybridCadence ==
    [][HybridPass
           => LET cyc == CycleLog(last'.log)
                  reads == Events(cyc, "read")
                  checks == Events(cyc, "check")
                  steps == Events(cyc, "step")
                  due == \/ self.cached_measurements = None
                         \/ now' - self.last_sensor_read >= self.sensor_read_interval
                  passed == \A i \in checks : cyc[i].ok
              IN  /\ now' = now + self.pwm_update_interval
                  /\ Cardinality(reads) = (IF due THEN 1 ELSE 0)
                  /\ Cardinality(checks) = (IF due THEN 1 ELSE 0)
                  /\ due => /\ cyc[1].e = "read" /\ cyc[2].e = "check"
                             /\ cyc[2].s = cyc[1].s
                             /\ self'.cached_measurements = Some(cyc[1].s)
                             /\ self'.last_sensor_read = now'
                  /\ ~due => /\ self'.cached_measurements = self.cached_measurements
                              /\ self'.last_sensor_read = self.last_sensor_read
                  /\ passed
                         => /\ Cardinality(steps) = (IF task.mode \in StepModes THEN 1 ELSE 0)
                            /\ \A i \in steps : /\ cyc[i].s = self'.cached_measurements[1]
                                                 /\ \A j \in checks : j < i
                            /\ (task'.pc = "sleep") = (\A i \in steps : cyc[i].ok)
                            /\ task'.pc = "sleep" => self'.cycle_count = self.cycle_count + 1
                  /\ ~passed => steps = {} /\ task'.pc = "done"]_vars

\* C18's case: the second cycle of a hybrid start_regulation, 1 ms after the
\* read of the first with sensor_read_interval 2 ms: no read, no check, a step
\* on the cached sample, and the loop asleep again.
C18_CachedCycle ==
    /\ task.entry = "start_regulation"
    /\ self.hybrid_mode
    /\ last.op = "task_resume"
    /\ task.pc = "sleep"
    /\ self.cycle_count = 2
    /\ now - self.last_sensor_read = self.sensor_read_interval - 1
    /\ Events(last.log, "read") = {} /\ Events(last.log, "check") = {}
    /\ \E i \in Events(last.log, "step") : last.log[i].s = self.cached_measurements[1]

---------------------------------------------------------------------------
\* Properties of the hybrid cadence at whole multiples (SpecCadence)

\* A pass of a hybrid loop has just ended in its sleep, the sensor interval
\* being a whole number of PWM intervals.
CycleSlept ==
    /\ self.hybrid_mode
    /\ LoopStarted
    /\ last.op \in {"task_start", "task_resume"}
    /\ task.pc = "sleep"
    /\ self.sensor_read_interval % self.pwm_update_interval = 0

\* C19: with sensor_read_interval = k * pwm_update_interval and every sleep
\* lasting exactly one PWM interval, the first k cycles of a hybrid run make
\* exactly one sensor read (that of cycle 1) and one step each; the second
\* read happens on cycle k+1.
C19_OneReadInKCycles ==
    CycleSlept
        => LET k == self.sensor_read_interval \div self.pwm_update_interval
               n == self.cycle_count
               reads == Events(last.log, "read")
           IN  /\ now = self.start_time + (n - 1) * self.pwm_update_interval
               /\ task.mode \in StepModes => Cardinality(Events(last.log, "step")) = 1
               /\ n <= k => /\ Cardinality(reads) = (IF n = 1 THEN 1 ELSE 0)
                             /\ self.last_sensor_read = self.start_time
                             /\ self.cached_measurements[1].timestamp = self.start_time
               /\ n = k + 1 => /\ Cardinality(reads) = 1
                                /\ self.last_sensor_read = now
                                /\ self.cached_measurements[1].timestamp = now

\* C19's case: k = 3, the fourth cycle has just read the sensor for the
\* second time, 3 ms after the start.
C19_SecondReadOnCycleFour ==
    /\ CycleSlept
    /\ self.sensor_read_interval = 3 * self.pwm_update_interval
    /\ self.cycle_count = 4
    /\ now = self.start_time + self.sensor_read_interval
    /\ Events(last.log, "read") # {}
    /\ Events(last.log, "step") # {}

---------------------------------------------------------------------------
\* A hybrid controller with equal intervals against the non-hybrid loop
\* (SpecCadence)

\* The non-hybrid controller with update_interval = pwm_update_interval in
\* the state that corresponds to c: the fields only the hybrid loop writes
\* are as __init__ and the setup leave them.
NonHybrid(c) ==
    [c EXCEPT !.hybrid_mode = FALSE,
              !.update_interval = c.pwm_update_interval,
              !.cached_measurements = None,
              !.last_sensor_read = 0]

\* The same reads, checks, steps and PWM writes, the same duty and the same
\* state but for the hybrid loop's own fields.
SameRun(wh, wn) ==
    /\ wh.log = wn.log
    /\ wh.pca9685 = wn.pca9685
    /\ NonHybrid(wh.self) = wn.self
    /\ wh.flow = wn.flow
    /\ wh.exc = wn.exc

\* What the task does next on the controller c, with the sensor and PWM
\* answers `in`.
TaskRuns(c, in) ==
    IF task.pc = "created"
    THEN IF task.entry = "start_regulation"
         THEN start_regulation(World(c, pca9685), task.mode, now, in)
         ELSE run_controller(World(c, pca9685), task.monitor, task.mode, now, in)
    ELSE IF task.entry = "start_regulation"
         THEN start_regulation_resume(World(c, pca9685), task.mode,
                                      now + c.pwm_update_interval, in)
         ELSE run_controller_resume(World(c, pca9685), task.monitor, task.mode,
                                    now + c.pwm_update_interval, in)

EqualIntervals == self.hybrid_mode /\ self.sensor_read_interval = self.pwm_update_interval

\* C20: a hybrid controller whose sensor_read_interval equals its
\* pwm_update_interval behaves as the non-hybrid loop with that
\* update_interval: every cycle re-reads and safety-checks the sensor, and on
\* the same samples both make the same reads, steps and duty values and end
\* in the same state.
C20_EqualIntervalsAsNonHybrid ==
    EqualIntervals
        => /\ NonHybrid(self).sensor_read_interval = NonHybrid(self).update_interval
           /\ (last.op \in {"task_start", "task_resume"} /\ LoopStarted
                   /\ last.log[1].e # "stop")
                  => /\ last.log[1].e = "read" /\ last.log[1].s.timestamp = now
                     /\ last.log[2].e = "check" /\ last.log[2].s = last.log[1].s
           /\ task.pc \in {"created", "sleep"}
                  => \A in \in Inputs : SameRun(TaskRuns(self, in), TaskRuns(NonHybrid(self), in))

\* C20's case: the third cycle of a hybrid cc_cv run with both intervals
\* 1 ms has read and checked a fresh sample and stepped on it.
C20_ThirdCycleReads ==
    /\ EqualIntervals
    /\ task.mode = MODE_CC_CV
    /\ last.op = "task_resume"
    /\ task.pc = "sleep"
    /\ self.cycle_count = 3
    /\ last.log[1].e = "read" /\ last.log[2].e = "check"
    /\ \E i \in Events(last.log, "step") : last.log[i].s.timestamp = now

---------------------------------------------------------------------------
\* Properties of the coordinated controllers (SpecFleet)

Stopped(c) == c.self.current_mode = MODE_STOPPED /\ ~c.self.is_running

C22_FaultContained ==
    /\ \A i \in DOMAIN fleet.tasks :
           /\ fleet.tasks[i].result # "raised"
           /\ fleet.tasks[i].pc = "done" => Stopped(fleet.ctl[fleet.tasks[i].ctl])
    /\ fleet.main # "raised"
    /\ (\E i \in DOMAIN fleet.tasks : fleet.tasks[i].pc = "sleep") => LoopAlive

\* C22, where it goes wrong: under main.main the PWM write of a controller's
\* shutdown raised, the exception left run_controller through its finally and
\* ended main in its gather; the sibling's task is still asleep in its loop,
\* its controller running with the duty it last wrote, and is never resumed.
C22_SiblingAbandoned ==
    /\ fleet.program = "main"
    /\ fleet.main = "raised"
    /\ \E i, j \in DOMAIN fleet.tasks :
           /\ fleet.tasks[i].result = "raised"
           /\ Stopped(fleet.ctl[fleet.tasks[i].ctl])
           /\ fleet.tasks[j].pc = "sleep"
           /\ fleet.ctl[fleet.tasks[j].ctl].self.is_running
           /\ fleet.ctl[fleet.tasks[j].ctl].self.current_mode = MODE_CC_CV
           /\ fleet.ctl[fleet.tasks[j].ctl].pca9685 # fleet.ctl[fleet.tasks[j].ctl].self.max_duty

\* C22 under MultiControllerManager: run_single_controller catches whatever
\* start_regulation lets out, so no task ends with an exception, the
\* coordinator goes on and a sleeping sibling is resumed.
C22_ManagerContains ==
    fleet.program = "manager" => C22_FaultContained

---------------------------------------------------------------------------
\* Properties of a run whose PWM driver fails (Spec)

\* The last run of a start_regulation task had a step whose PWM write raised.
StepRaised ==
    /\ task.entry = "start_regulation"
    /\ last.op \in {"task_start", "task_resume"}
    /\ \E i \in Events(last.log, "step") : ~last.log[i].ok

\* The run has ended and, after the failed step, the shutdown wrote max_duty
\* to the PWM driver, or tried to.
ShutdownAttempted ==
    /\ task.pc = "done"
    /\ Stopped([self |-> self])
    /\ \E i \in Events(last.log, "step"), j \in Events(last.log, "stop"),
          k \in Events(last.log, "pwm") :
           /\ ~last.log[i].ok
           /\ i < j /\ j < k
           /\ last.log[k].after = self.max_duty

\* C23 (as stated): when the PWM driver raises during a regulation step, the
\* run stops, the shutdown duty write (max_duty) is still attempted, and the
\* failure is then surfaced to the caller of start_regulation, distinguishable
\* from a normal stop or cancellation.
C23_FailureSurfaced ==
    StepRaised => ShutdownAttempted /\ task.result = "raised"

\* C23, where it goes wrong: the step's PWM write raised, the shutdown's write
\* succeeded, and start_regulation returned as it does after a normal stop.
C23_FailureSwallowed ==
    /\ StepRaised
    /\ ShutdownAttempted
    /\ \A k \in Events(last.log, "pwm") :
           k > Latest(Events(last.log, "stop")) => last.log[k].ok
    /\ task.result = "returned"
    /\ last.exc = FALSE

\* C23 without its last part: the run stops and the shutdown write of
\* max_duty is attempted after the failed step.
C23_ShutdownStillAttempted ==
    StepRaised => ShutdownAttempted

\* C24: a controller task suspends only at the sleep at the end of its
\* cycle: the read, the safety check, the step and the cycle_count update of a
\* cycle happen in one run of the task, during which no other task runs, no
\* time passes and no other controller, task or stop request changes.
C24_CycleAtomic ==
    [][\A i \in DOMAIN fleet.tasks :
           (last'.op \in {"task_start", "task_resume"} /\ last'.arg = i)
               => LET t == fleet.tasks[i]
                      log == last'.log
                      before == IF t.pc = "created" THEN 0
                                ELSE fleet.ctl[t.ctl].self.cycle_count
                  IN  /\ now' = now
                      /\ fleet'.main = fleet.main
                      /\ \A j \in DOMAIN fleet.tasks \ {i} :
                             /\ fleet'.tasks[j] = fleet.tasks[j]
                             /\ fleet'.ctl[fleet.tasks[j].ctl] = fleet.ctl[fleet.tasks[j].ctl]
                      /\ fleet'.tasks[i].pc = "sleep"
                             => /\ Events(log, "stop") = {}
                                /\ Cardinality(Events(log, "step")) = 1
                                /\ \A r \in Events(log, "read") :
                                       /\ log[r + 1].e = "check"
                                       /\ \A s \in Events(log, "step") : r + 1 < s
                                /\ fleet'.ctl[t.ctl].self.cycle_count = before + 1]_vars

\* C24's case: the second controller has just run its second cycle while the
\* first is asleep after its own second cycle.
C24_CyclesInterleaved ==
    /\ last.op = "task_resume" /\ last.arg = 2
    /\ fleet.tasks[1].pc = "sleep" /\ fleet.tasks[2].pc = "sleep"
    /\ fleet.ctl[1].self.cycle_count = 2
    /\ fleet.ctl[2].self.cycle_count = 2
    /\ Events(last.log, "step") # {}

----------------------------------------------------------------------------
\* Properties of the mode of a controller (SpecShared, Spec)
----------------------------------------------------------------------------

\* A change of current_mode that starts from STOPPED or ends in STOPPED.
ThroughStopped(before, after) ==
    before # after => (before = MODE_STOPPED \/ after = MODE_STOPPED)

\* C25: a controller's mode is STOPPED from construction until the first
\* start, and it changes only from STOPPED to a running mode and from a
\* running mode to STOPPED, never from one running mode to another.
C25_ModeThroughStopped ==
    [][/\ (\A i \in DOMAIN fleet.tasks : fleet.tasks[i].pc = "created")
            => \A c \in DOMAIN fleet.ctl : fleet.ctl[c].self.current_mode = MODE_STOPPED
       /\ \A c \in DOMAIN fleet.ctl :
              ThroughStopped(fleet.ctl[c].self.current_mode,
                             fleet'.ctl[c].self.current_mode)]_vars

\* C25's case: the second task has just started voltage regulation on a
\* controller whose cc_cv loop is asleep and was never stopped.
C25_RunningToRunning ==
    /\ fleet.program = "caller"
    /\ calls = 0
    /\ last.op = "task_start" /\ last.arg = 2
    /\ fleet.tasks[1].pc = "sleep" /\ fleet.tasks[1].mode = MODE_CC_CV
    /\ fleet.tasks[2].pc = "sleep"
    /\ fleet.ctl[1].self.current_mode = MODE_VOLTAGE_REGULATION
    /\ fleet.ctl[1].self.is_running

\* With one task for the controller, every change of mode starts from or
\* ends in STOPPED.
C25_SingleLoopThroughStopped ==
    [][ThroughStopped(self.current_mode, self'.current_mode)]_vars

----------------------------------------------------------------------------
\* Properties of a sensor failure (Spec)
----------------------------------------------------------------------------

\* What the task's next run does under the answers `in`, from the present
\* state (the task created, or asleep in its loop).
NextRun(in) ==
    LET interval == IF self.hybrid_mode THEN self.pwm_update_interval ELSE self.update_interval
    IN  IF task.pc = "created"
        THEN IF task.entry = "start_regulation"
             THEN start_regulation(World(self, pca9685), task.mode, now, in)
             ELSE run_controller(World(self, pca9685), task.monitor, task.mode, now, in)
        ELSE IF task.entry = "start_regulation"
             THEN start_regulation_resume(World(self, pca9685), task.mode, now + interval, in)
             ELSE run_controller_resume(World(self, pca9685), task.monitor, task.mode,
                                        now + interval, in)

\* A log without what tells one unsafe sample from another: the sample and
\* the verdict of the cycle's read and check.
Outline(log) ==
    [i \in DOMAIN log |->
        IF log[i].e \in {"read", "check"} /\ \A j \in Events(log, "stop") : i < j
        THEN [log[i] EXCEPT !.kind = "", !.s = NoSample, !.ok = FALSE]
        ELSE log[i]]

AllNaN(m) == isnan(m.voltage) /\ isnan(m.current) /\ isnan(m.power)

\* C26: read_measurements does not raise: when the sensor driver fails
\* (raising, or answering NaN) it returns a sample whose voltage, current and
\* power are NaN; a cycle that reads such a sample fails its safety check and
\* ends the run through the shutdown, leaving the controller, the output, the
\* task and the sequence of operations as an over-voltage or over-current
\* sample read in its place does (the sample itself, which a hybrid cycle
\* keeps in cached_measurements, apart).
C26_SensorFailureIsTrip ==
    /\ \A data \in {SensorFault, Reading(NaN, NaN), Reading(NaN, 900), Reading(700, NaN)} :
           LET r == read_measurements(World(self, pca9685), data, now)
           IN  /\ ~r.exc
               /\ isnan(r.ret.power)
               /\ data = SensorFault => AllNaN(r.ret)
               /\ r.self = self /\ r.pca9685 = pca9685
    /\ task.pc \in {"created", "sleep"}
           => \A in \in Inputs :
                  in.data = SensorFault
                      => LET a == NextRun(in)
                         IN  /\ \A trip \in {Reading(3001, 100), Reading(720, 5001)} :
                                    LET b == NextRun([in EXCEPT !.data = trip])
                                    IN  /\ [a.self EXCEPT !.cached_measurements = None]
                                           = [b.self EXCEPT !.cached_measurements = None]
                                        /\ a.pca9685 = b.pca9685
                                        /\ a.flow = b.flow
                                        /\ a.exc = b.exc
                                        /\ Outline(a.log) = Outline(b.log)
                             /\ (a.log # <<>> /\ a.log[1].e = "read")
                                    => /\ AllNaN(a.log[1].s)
                                       /\ a.log[2].e = "check" /\ ~a.log[2].ok
                                       /\ a.log[3].e = "stop"
                                       /\ a.flow # "sleep"
                                       /\ a.self.current_mode = MODE_STOPPED
                                       /\ ~a.self.is_running

\* C26's case: a cycle after the first has just read the failed sensor, and
\* the run has ended with the output at max_duty.
C26_FaultReadInCycle ==
    /\ last.op = "task_resume"
    /\ Len(last.log) >= 3
    /\ last.log[1].e = "read" /\ ~last.log[1].ok /\ AllNaN(last.log[1].s)
    /\ last.log[2].e = "check" /\ last.log[2].kind = "invalid"
    /\ last.log[3].e = "stop"
    /\ task.pc = "done" /\ task.result = "returned"
    /\ pca9685 = self.max_duty

----------------------------------------------------------------------------
\* Properties of get_status (SpecStatus)
----------------------------------------------------------------------------

\* C27: get_status, called while the loop is suspended or the controller is
\* stopped, changes no field of the controller, nor the output, nor the task,
\* and the mode, running, duty_cycle, cycle_count and targets it returns are
\* the controller's fields.
C27_GetStatusPure ==
    [][last'.op = "get_status"
           => /\ self' = self
              /\ pca9685' = pca9685
              /\ task' = task
              /\ now' = now
              /\ ~last'.exc
              /\ last'.ret.mode = self.current_mode
              /\ last'.ret.running = self.is_running
              /\ last'.ret.duty_cycle = self.current_duty
              /\ last'.ret.cycle_count = self.cycle_count
              /\ last'.ret.targets.voltage = self.target_voltage
              /\ last'.ret.targets.current = self.target_current]_vars

\* C27's case: the status asked for a second time while the loop sleeps
\* after completed cycles.
C27_AskedTwiceWhileAsleep ==
    /\ last.op = "get_status"
    /\ calls = 2
    /\ task.pc = "sleep"
    /\ self.is_running
    /\ self.cycle_count >= 2
    /\ last.ret.cycle_count = self.cycle_count
    /\ last.ret.mode = task.mode

----------------------------------------------------------------------------
\* Properties of cycle_count (Spec)
----------------------------------------------------------------------------

\* cycle_count when the run of the task with operation op began.
CountBefore(op) == IF op = "task_start" THEN 0 ELSE self.cycle_count

\* C28 as stated: while a run is active, cycle_count is the number of calls
\* of the mode's step: every run of the task that leaves the loop active
\* adds to cycle_count the number of step calls it made.
C28_CountsStepCalls ==
    [][(last'.op \in {"task_start", "task_resume"} /\ task'.pc = "sleep")
           => self'.cycle_count
                  = CountBefore(last'.op) + Cardinality(Events(last'.log, "step"))]_vars

\* C28: while a run is active, cycle_count is the number of cycles that got
\* past the safety check and whose step, if the mode has one, returned: a
\* cycle that ends in the sleep adds one, and has called the step once in
\* voltage_regulation, current_limiting and cc_cv and not at all in custom
\* mode; a cycle that trips the safety check, or whose step raises, adds
\* nothing.
C28_CountsCompletedCycles ==
    [][last'.op \in {"task_start", "task_resume"}
           => LET log == last'.log
                  steps == Events(log, "step")
              IN  IF task'.pc = "sleep"
                  THEN /\ self'.cycle_count = CountBefore(last'.op) + 1
                       /\ \A k \in Events(log, "check") : log[k].ok
                       /\ Cardinality(steps) = IF task.mode \in StepModes THEN 1 ELSE 0
                       /\ \A s \in steps : log[s].ok
                  ELSE /\ self'.cycle_count = CountBefore(last'.op)
                       /\ \A s \in steps : ~log[s].ok]_vars

\* C28's case: a custom-mode loop asleep after its second cycle, no step
\* called.
C28_CustomCycleCounted ==
    /\ last.op = "task_resume"
    /\ task.pc = "sleep"
    /\ task.mode = MODE_CUSTOM
    /\ self.cycle_count = 2
    /\ Events(last.log, "step") = {}

----------------------------------------------------------------------------
\* Properties of the periodic status report (SpecLongRun)
----------------------------------------------------------------------------

\* The cycle just completed printed the status.
Reported == Events(last.log, "status") # {}

\* C29: the status report fires exactly on the cycles where cycle_count is a
\* positive multiple of N, N = 500 in the non-hybrid loop and 2000 in the
\* hybrid loop.
C29_ReportEveryN ==
    (last.op \in {"task_start", "task_resume"} /\ task.pc = "sleep")
        => LET N == IF self.hybrid_mode THEN StatusPrintCycles ELSE STATUS_PRINT_INTERVAL
           IN  Reported <=> (self.cycle_count > 0 /\ self.cycle_count % N = 0)

\* C29's case: a non-hybrid loop asleep after its 500th cycle, which printed
\* nothing.
C29_SilentAt500 ==
    /\ last.op = "task_resume"
    /\ task.pc = "sleep"
    /\ ~self.hybrid_mode
    /\ self.cycle_count = STATUS_PRINT_INTERVAL
    /\ ~Reported

\* What the loops do: the report fires exactly on the positive multiples of
\* 2000, hybrid or not.
C29_ReportEvery2000 ==
    (last.op \in {"task_start", "task_resume"} /\ task.pc = "sleep")
        => (Reported <=> (self.cycle_count > 0 /\ self.cycle_count % StatusPrintCycles = 0))

\* A non-hybrid loop asleep after its 2000th cycle, which printed the status.
C29_ReportedAt2000 ==
    /\ task.pc = "sleep"
    /\ ~self.hybrid_mode
    /\ self.cycle_count = StatusPrintCycles
    /\ Reported

----------------------------------------------------------------------------
\* Properties of the output of a stopped controller (Spec)
----------------------------------------------------------------------------

\* C30: whenever the mode is STOPPED (no manual set_duty_cycle is ever issued
\* in this specification) the duty asserted on the actuator is max_duty, in
\* particular right after construction.
C30_StoppedAtMaxDuty ==
    self.current_mode = MODE_STOPPED => pca9685 = self.max_duty

\* C30's case: the controller just constructed, stopped, with the initial
\* duty on the actuator and max_duty above it.
C30_ConstructedBelowMaxDuty ==
    /\ last.op = "__init__"
    /\ task.pc = "none"
    /\ self.current_mode = MODE_STOPPED
    /\ pca9685 = InitialDuty
    /\ self.current_duty = InitialDuty
    /\ InitialDuty < self.max_duty

\* After a shutdown whose PWM write was taken the actuator is at max_duty.
C30_MaxDutyAfterShutdown ==
    LET writes == Events(last.log, "pwm")
    IN  (task.pc = "done" /\ Events(last.log, "stop") # {} /\ writes # {}
            /\ last.log[Latest(writes)].ok)
            => /\ self.current_mode = MODE_STOPPED
               /\ pca9685 = self.max_duty

---------------------------------------------------------------------------
\* Properties of the loops of one controller (SpecShared)
---------------------------------------------------------------------------

\* The tasks suspended inside the regulation loop of controller c.
LoopsOf(c) == {i \in DOMAIN fleet.tasks : fleet.tasks[i].ctl = c /\ fleet.tasks[i].pc = "sleep"}

\* C31: at most one regulation loop drives a controller at any time: a start
\* on a controller whose previous loop has not ended never leaves two loops
\* applying steps to the same duty.
C31_OneLoopPerController ==
    \A c \in DOMAIN fleet.ctl : Cardinality(LoopsOf(c)) <= 1

\* C31's case: after the caller's stop_regulation and a new start, the first
\* loop has woken, found is_running set again and applied a step to the duty
\* the second loop is stepping.
C31_OldLoopSteps ==
    /\ fleet.program = "caller"
    /\ calls = 1
    /\ last.op = "task_resume" /\ last.arg = 1
    /\ Events(last.log, "step") # {}
    /\ fleet.tasks[1].pc = "sleep"
    /\ fleet.tasks[2].pc = "sleep"
    /\ fleet.ctl[1].self.is_running
    /\ fleet.ctl[1].self.cycle_count = 2

\* With one task for each controller no controller has two loops.
C31_OneTaskOneLoop ==
    fleet.program \in {"main", "manager"} => C31_OneLoopPerController

---------------------------------------------------------------------------
\* Properties of the cc_cv step above its targets (SpecUnit)
---------------------------------------------------------------------------

\* The sample is at or above the target voltage, or above the current band.
AboveTarget(c, s) ==
    \/ fle(c.target_voltage, s.voltage)
    \/ fgt(s.current, c.target_current + c.current_tolerance)

SignsAssumed(c) ==
    c.duty_step >= 0 /\ c.voltage_tolerance >= 0 /\ c.current_tolerance >= 0

\* C32: in cc_cv, with duty_step and the tolerances non-negative, no step
\* decreases the duty on a sample whose voltage is at or above target_voltage
\* or whose current is above target_current + current_tolerance.
C32_NoDecreaseAboveTarget ==
    (last.op = "_cc_cv_step" /\ SignsAssumed(self))
        => \A i \in Events(last.log, "step") :
               AboveTarget(self, last.log[i].s) => last.log[i].after >= last.log[i].before

\* C32's case: a cc_cv step on a sample above the target voltage has lowered
\* the duty, to max_duty.
C32_ClampLowersDuty ==
    /\ last.op = "_cc_cv_step"
    /\ SignsAssumed(self)
    /\ \E i \in Events(last.log, "step") :
           /\ last.log[i].s.voltage > self.target_voltage + self.voltage_tolerance
           /\ last.log[i].after < last.log[i].before
           /\ last.log[i].after = self.max_duty
           /\ last.log[i].writes = 1

\* From a duty that is not above max_duty, no cc_cv step decreases the duty on
\* a sample above its targets whose voltage is a number.
C32_NoDecreaseFromRange ==
    (last.op = "_cc_cv_step" /\ SignsAssumed(self))
        => \A i \in Events(last.log, "step") :
               (AboveTarget(self, last.log[i].s) /\ last.log[i].before <= self.max_duty
                    /\ ~isnan(last.log[i].s.voltage))
                   => last.log[i].after >= last.log[i].before

---------------------------------------------------------------------------
\* Properties of is_running and the mode (Spec)
---------------------------------------------------------------------------

\* C33: wherever another task or the caller can observe the controller,
\* is_running is True exactly when the mode is not STOPPED, also after a
\* caller has cleared is_running and before the loop has woken up.
C33_RunningIffNotStopped ==
    self.is_running <=> self.current_mode # MODE_STOPPED

\* C33's case: the caller has cleared is_running; the loop, asleep after a
\* completed cycle, has not woken yet, and the mode is still cc_cv.
C33_FlagClearedLoopAsleep ==
    /\ last.op = "request_stop"
    /\ task.pc = "sleep"
    /\ ~self.is_running
    /\ self.current_mode = MODE_CC_CV
    /\ self.cycle_count >= 1
    /\ pca9685 # self.max_duty

\* Except between a caller's clearing of is_running and the loop's next
\* wake-up, is_running is True exactly when the mode is not STOPPED.
C33_AgreeUnlessFlagCleared ==
    last.op # "request_stop" => C33_RunningIffNotStopped

---------------------------------------------------------------------------
\* Properties of current_duty against the PWM driver (SpecUnit)
---------------------------------------------------------------------------

\* The last write to the PWM driver in the last operation.
LastWrite == last.log[Latest(Events(last.log, "pwm"))]

\* C34: current_duty equals the last value the PWM driver accepted: after an
\* operation whose last write raised, current_duty is the value the channel
\* had before that write, not the value that was refused.
C34_DutyIsLastAccepted ==
    Events(last.log, "pwm") # {}
        => self.current_duty = IF LastWrite.ok THEN LastWrite.after ELSE LastWrite.before

\* C34's case: the PWM write of a voltage step raised, and current_duty holds
\* the value the driver refused.
C34_RefusedDutyKept ==
    /\ last.op = "_voltage_regulation_step"
    /\ last.exc
    /\ Events(last.log, "pwm") # {}
    /\ ~LastWrite.ok
    /\ LastWrite.after # LastWrite.before
    /\ self.current_duty = LastWrite.after
    /\ pca9685 = LastWrite.before

\* After an operation whose last write the driver took, current_duty is the
\* value written.
C34_AcceptedDutyKept ==
    (Events(last.log, "pwm") # {} /\ LastWrite.ok)
        => (self.current_duty = LastWrite.after /\ pca9685 = LastWrite.after)

---------------------------------------------------------------------------
\* Properties of the outputs after the coordinator's stop (SpecFleet)
---------------------------------------------------------------------------

\* C35: after the coordinator's stop has completed, every controller's duty
\* is max_duty, also for a controller whose task was cancelled before it ran
\* its first cycle.
C35_AllAtMaxDutyAfterStop ==
    fleet.main = "stopped"
        => \A c \in DOMAIN fleet.ctl :
               fleet.ctl[c].self.current_duty = fleet.ctl[c].self.max_duty

\* C35's case: the stop has completed; the first controller's task ran and
\* was shut down, the second was cancelled before its first run and its
\* controller still has the initial duty, in the field and on the channel.
C35_NeverStartedKeepsDuty ==
    /\ fleet.main = "stopped"
    /\ fleet.tasks[1].result # "cancelled"
    /\ fleet.ctl[1].self.current_duty = fleet.ctl[1].self.max_duty
    /\ fleet.tasks[2].result = "cancelled"
    /\ fleet.ctl[2].self.cycle_count = 0
    /\ fleet.ctl[2].self.current_duty = InitialDuty
    /\ fleet.ctl[2].pca9685 = InitialDuty
    /\ InitialDuty < fleet.ctl[2].self.max_duty

\* After the stop, every controller whose task ran at all has current_duty
\* at max_duty.
C35_StartedAtMaxDutyAfterStop ==
    fleet.main = "stopped"
        => \A i \in DOMAIN fleet.tasks :
               fleet.tasks[i].result # "cancelled"
                   => fleet.ctl[fleet.tasks[i].ctl].self.current_duty
                          = fleet.ctl[fleet.tasks[i].ctl].self.max_duty

---------------------------------------------------------------------------
\* Properties of run_controller with and without the monitor (Spec)
---------------------------------------------------------------------------

\* The controller and where the task is after its next run through
\* run_controller with the monitor flag as given: first run, wake-up from the
\* sleep, or CancelledError thrown into the sleep.
RunVia(monitor, how, in) ==
    LET interval == IF self.hybrid_mode THEN self.pwm_update_interval ELSE self.update_interval
        w == IF how = "start"
             THEN run_controller(World(self, pca9685), monitor, task.mode, now, in)
             ELSE IF how = "resume"
             THEN run_controller_resume(World(self, pca9685), monitor, task.mode,
                                        now + interval, in)
             ELSE run_controller_cancel(World(self, pca9685), monitor, now, in)
    IN  [self |-> w.self, suspended |-> w.flow = "sleep"]

\* C36: for every valid mode, from every state of a controller run through
\* main.run_controller, the task's next run with the performance monitor and
\* without it (under the same answers of the sensor and the PWM driver,
\* whatever the second shutdown's write does) leave the same controller
\* state and the task in the same place: the two runs go through the same
\* sequence of controller states and end in the same one.
C36_MonitorChangesNothing ==
    (task.entry = "run_controller" /\ task.monitor /\ task.mode \in ValidModes
         /\ task.pc \in {"created", "sleep"})
        => \A in \in Inputs, ok2 \in BOOLEAN :
               \A how \in (IF task.pc = "created" THEN {"start"} ELSE {"resume", "cancel"}) :
                   RunVia(TRUE, how, in) = RunVia(FALSE, how, [in EXCEPT !.stopOk2 = ok2])

\* C36's case: a monitored run has ended on a PWM write that raised in a
\* step, after completed cycles.
C36_MonitoredRunEnded ==
    /\ task.entry = "run_controller" /\ task.monitor
    /\ task.mode \in ValidModes
    /\ last.op = "task_resume"
    /\ task.pc = "done"
    /\ \E s \in Events(last.log, "step") : ~last.log[s].ok
    /\ self.cycle_count >= 1
    /\ self.current_mode = MODE_STOPPED

---------------------------------------------------------------------------
\* Age of the sample a hybrid step uses (SpecCadence)

\* C37: in hybrid mode every sample used by a step passed the safety check
\* when it was read and, at the start of the cycle that uses it, is younger
\* than sensor_read_interval: the sample is the cached one, it is the latest
\* sample a check passed, it was read at last_sensor_read, and the cycle's
\* time is less than sensor_read_interval after that read.
C37_StepSampleVettedAndYoung ==
    (self.hybrid_mode /\ last.op \in {"task_start", "task_resume"})
        => \A i \in Events(CycleLog(last.log), "step") :
               /\ hist.vetted = Some(last.log[i].s)
               /\ self.cached_measurements = Some(last.log[i].s)
               /\ last.log[i].s.timestamp = self.last_sensor_read
               /\ now - self.last_sensor_read >= 0
               /\ now - self.last_sensor_read < self.sensor_read_interval

\* C37's case: with sensor_read_interval three PWM intervals, the third cycle
\* steps on the cached sample one PWM interval before it falls due, with no
\* read and no check.
C37_OldestCachedStep ==
    /\ self.hybrid_mode
    /\ self.sensor_read_interval = 3 * self.pwm_update_interval
    /\ last.op = "task_resume"
    /\ Events(last.log, "read") = {}
    /\ \E i \in Events(last.log, "step") :
           /\ self.cached_measurements = Some(last.log[i].s)
           /\ now - last.log[i].s.timestamp = self.sensor_read_interval - self.pwm_update_interval

---------------------------------------------------------------------------
\* A voltage-regulation run that is not stopped, on hardware whose safe
\* samples stay on one side of the tolerance band, followed for
\* SaturateCycles cycles (SpecSaturate)

SaturateCycles == 8

\* Controllers with a duty range a few steps wide around the initial duty,
\* and one whose range leaves the initial duty out.
SaturateArgs ==
    { [DefaultArgs EXCEPT !.min_duty = 990, !.max_duty = 1010],
      [HybridArgs EXCEPT !.min_duty = 990, !.max_duty = 1010],
      [DefaultArgs EXCEPT !.min_duty = 990, !.max_duty = 996] }

\* Safe samples above the band: just above it, and 0.8 V above the target.
Above(c) ==
    { Reading(c.target_voltage + c.voltage_tolerance + 1, c.target_current),
      Reading(c.target_voltage + 80, c.target_current) }

\* Safe samples below the band.
Below(c) ==
    { Reading(c.target_voltage - c.voltage_tolerance - 1, c.target_current),
      Reading(c.target_voltage - 80, c.target_current) }

OverBand(c, s) == fgt(s.voltage, c.target_voltage + c.voltage_tolerance)

UnderBand(c, s) == flt(s.voltage, c.target_voltage - c.voltage_tolerance)

\* The first sample of a run is on either side; every later one is on the
\* side of the sample before it.
SaturateReadings ==
    IF hist.vetted = None THEN Above(self) \cup Below(self)
    ELSE IF OverBand(self, hist.vetted[1]) THEN Above(self)
    ELSE Below(self)

SaturateInputs ==
    [data : SaturateReadings, ok : BOOLEAN, stopData : {Reading(721, 1000)},
     stopOk : {TRUE}, stopOk2 : {TRUE}]

SaturateInit ==
    /\ \E a \in SaturateArgs, program \in Programs : Constructed(a, program)
    /\ fleet = NoFleet

SaturateCreate ==
    /\ task.pc = "none"
    /\ task' = [task EXCEPT !.pc = "created", !.mode = MODE_VOLTAGE_REGULATION,
                            !.result = "pending"]
    /\ last' = Quiet("create_task")
    /\ UNCHANGED <<self, pca9685, now, calls, hist, fleet>>

SaturateStart == Start(SaturateInputs)

\* The sleep returns after the loop's interval and the loop goes on.
SaturateResume ==
    \E in \in SaturateInputs :
        LET interval == IF self.hybrid_mode THEN self.pwm_update_interval ELSE self.update_interval
            t == now + interval
        IN  /\ task.pc = "sleep"
            /\ self.cycle_count < SaturateCycles
            /\ now' = t
            /\ \E w \in {IF task.entry = "start_regulation"
                        THEN start_regulation_resume(World(self, pca9685), task.mode, t, in)
                        ELSE run_controller_resume(World(self, pca9685), task.monitor, task.mode, t, in)} :
                   TaskStep("task_resume", w)

SaturateNext ==
    \/ SaturateCreate
    \/ SaturateStart
    \/ SaturateResume

\* asyncio runs a created task and wakes a sleeping one once its delay has
\* passed.
SpecSaturate ==
    SaturateInit /\ [][SaturateNext]_vars
        /\ WF_vars(SaturateStart) /\ WF_vars(SaturateResume)

---------------------------------------------------------------------------
\* Properties of a voltage-regulation run under one-sided samples
\* (SpecSaturate)

\* A cycle of the run after which the loop sleeps again.
SaturateCycle ==
    /\ last'.op \in {"task_start", "task_resume"}
    /\ task'.pc = "sleep"
    /\ hist'.vetted # None

\* The loop sleeps after a cycle on a sample above (below) the band.
Rising == task.pc = "sleep" /\ hist.vetted # None /\ OverBand(self, hist.vetted[1])

Falling == task.pc = "sleep" /\ hist.vetted # None /\ UnderBand(self, hist.vetted[1])

RunOver == task.pc = "done" \/ self.cycle_count >= SaturateCycles

\* C38: in VOLTAGE_REGULATION mode with duty_step > 0, while every sample is
\* safe with voltage > target_voltage + voltage_tolerance and the run is not
\* stopped, duty never decreases and reaches max_duty after finitely many
\* cycles, after which no PWM write occurs; symmetrically duty never
\* increases and reaches min_duty while voltage stays below target_voltage -
\* voltage_tolerance.
C38_SaturatesAtLimit ==
    /\ [][SaturateCycle
              => /\ OverBand(self', hist'.vetted[1])
                        => /\ self'.current_duty >= self.current_duty
                           /\ self.current_duty = self.max_duty
                                  => Events(last'.log, "pwm") = {}
                 /\ UnderBand(self', hist'.vetted[1])
                        => /\ self'.current_duty <= self.current_duty
                           /\ self.current_duty = self.min_duty
                                  => Events(last'.log, "pwm") = {}]_vars
    /\ Rising ~> (self.current_duty = self.max_duty \/ task.pc = "done")
    /\ Falling ~> (self.current_duty = self.min_duty \/ task.pc = "done")

\* C38's case: the first cycle of a run on a controller constructed with
\* max_duty below the initial duty reads a sample above the band and writes
\* max_duty, lower than the duty before.
C38_RunLowersDuty ==
    /\ last.op = "task_start"
    /\ task.mode = MODE_VOLTAGE_REGULATION
    /\ Rising
    /\ \E i \in Events(last.log, "pwm") :
           /\ last.log[i].before = InitialDuty
           /\ last.log[i].after = self.max_duty
           /\ last.log[i].after < last.log[i].before

\* From a duty within [min_duty, max_duty] the statement of C38 holds.
C38_SaturatesFromRange ==
    /\ [][(SaturateCycle /\ self.min_duty <= self.current_duty
                         /\ self.current_duty <= self.max_duty)
              => /\ OverBand(self', hist'.vetted[1])
                        => /\ self'.current_duty >= self.current_duty
                           /\ self.current_duty = self.max_duty
                                  => Events(last'.log, "pwm") = {}
                 /\ UnderBand(self', hist'.vetted[1])
                        => /\ self'.current_duty <= self.current_duty
                           /\ self.current_duty = self.min_duty
                                  => Events(last'.log, "pwm") = {}]_vars
    /\ Rising ~> (self.current_duty = self.max_duty \/ task.pc = "done")
    /\ Falling ~> (self.current_duty = self.min_duty \/ task.pc = "done")

\* A run that reached max_duty and went on for further cycles without a write.
C38_HeldAtMaxDuty ==
    /\ Rising
    /\ last.op = "task_resume"
    /\ self.current_duty = self.max_duty
    /\ self.cycle_count = SaturateCycles
    /\ Events(last.log, "pwm") = {}

=============================================================================
